---- MODULE Spec2Model ----
(***************************************************************************)
(* RING_IO sample (GPP side): two worker threads, RING_IO_WriterClient1    *)
(* and RING_IO_WriterClient2, each writing frames into a RingIO it opened  *)
(* in writer mode and reading the DSP's answer from a RingIO it opened in  *)
(* reader mode.  The RingIO library itself and the DSP image are not part  *)
(* of the sources; the channel operations are modelled from the            *)
(* description of the Ring Channel and Watermark Notifier, the DSP as the  *)
(* mirrored peer of the writer protocol.                                   *)
(***************************************************************************)
EXTENDS Integers, Sequences, FiniteSets, TLC

VARIABLES ring, hist, chW, chR, w, sem, fReaderStart, fReaderEnd, Task_Run,
          peer, obs, env, ses, cli, vfy

vars == <<ring, hist, chW, chR, w, sem, fReaderStart, fReaderEnd, Task_Run,
          peer, obs, env, ses, cli, vfy>>

workerVars == <<chW, chR, w, sem, fReaderStart, fReaderEnd, Task_Run, peer, obs, env>>

chanVars == <<ring, hist>>

\* the session controller (RING_IO_Main), the command line (main) and the
\* buffer handed to RING_IO_Reader_VerifyData
ctlVars == <<ses, cli, vfy>>

(***************************************************************************)
(* Program constants (ring_io.c).                                          *)
(***************************************************************************)
\* the byte RING_IO_InitBuffer writes
XFER_VALUE == 5

RINGIO_DATA_START == 1
NOTIFY_DATA_START == 2
RINGIO_DATA_END == 3
NOTIFY_DATA_END == 4
RINGIO_DSP_END == 5
NOTIFY_DSP_END == 6
RING_IO_WRITER_BUF_SIZE == 1024
RING_IO_BufferSize == 1024
RING_IO_BufferSize1 == 4096
RING_IO_BufferSize2 == 2048
RING_IO_BufferSize3 == 2048
RING_IO_BytesToTransfer1 == 1024
RING_IO_BytesToTransfer2 == 2048
RING_IO_VATTR_SIZE == 1
\* sizeof (attrs): RING_IO_VATTR_SIZE words of 4 bytes
VAttrBytes == RING_IO_VATTR_SIZE * 4

(***************************************************************************)
(* Bounds of the model.                                                    *)
(***************************************************************************)
\* attributes the attribute buffer of a ring holds before setAttribute fails
MaxAttr == 5
\* writes (attribute sets and data releases) of the generic channel clients
MaxStamp == 3
\* posts a semaphore holds
MaxSem == 2
\* frames a worker starts
MaxFrames == 2

\* The sizes on the generic channel are multiples of half a writer buffer.
Granule == RING_IO_WRITER_BUF_SIZE \div 2

Pairs == {1, 2}

Min(a, b) == IF a < b THEN a ELSE b

\* the sizes from lo to hi on a ring whose sizes are multiples of g
Sizes(g, lo, hi) == {n \in lo..hi : n % g = 0}

(***************************************************************************)
(* Status codes.                                                           *)
(***************************************************************************)
DSP_SUCCEEDED(s) == s \in {"DSP_SOK", "RINGIO_SUCCESS", "RINGIO_SPENDINGATTRIBUTE"}

DSP_FAILED(s) == ~DSP_SUCCEEDED(s)

(***************************************************************************)
(* Ring Channel: a data ring of cap bytes, split into valid bytes, empty   *)
(* bytes and the bytes each client holds acquired, and the stream of       *)
(* attributes and valid data in write order.  A stream item is data        *)
(* (k = "d", n bytes), a fixed attribute (k = "f", type t, param n) or a   *)
(* variable attribute (k = "v", type t, first payload word n, payload of   *)
(* sz bytes); s is the item's write stamp.                                 *)
(***************************************************************************)
NoNotifier == [set |-> FALSE, wm |-> 0, armed |-> FALSE]

NewRing(cap, g) ==
  [cap |-> cap, g |-> g, valid |-> 0, empty |-> cap, wAcq |-> 0, rAcq |-> 0,
   items |-> <<>>, wN |-> NoNotifier, rN |-> NoNotifier]

DataItem(n, s) == [k |-> "d", t |-> 0, n |-> n, sz |-> 0, s |-> s]

FixedAttr(t, param, s) == [k |-> "f", t |-> t, n |-> param, sz |-> 0, s |-> s]

VarAttr(t, word, sz, s) == [k |-> "v", t |-> t, n |-> word, sz |-> sz, s |-> s]

IsAttr(it) == it.k \in {"f", "v"}

AttrCount(ch) == Cardinality({i \in 1..Len(ch.items) : IsAttr(ch.items[i])})

RingIO_getValidSize(ch) == ch.valid

RingIO_getValidAttrSize(ch) == AttrCount(ch)

\* register: arms a ONE_SHOT request at watermark wm
RingIO_setNotifier(ch, side, wm) ==
  IF side = "w"
  THEN [ch EXCEPT !.wN = [set |-> TRUE, wm |-> wm, armed |-> TRUE]]
  ELSE [ch EXCEPT !.rN = [set |-> TRUE, wm |-> wm, armed |-> TRUE]]

\* variant: a failed acquire leaves the caller's request as it is
Rearm_Never(n) == n

\* a failed acquire arms the caller's request again
Rearm(n) == [n EXCEPT !.armed = n.set]

\* variant: the request stays armed after it fired, as a persistent one
Disarm_StaysArmed(n) == n

\* a ONE_SHOT request is inert once it fired
Disarm(n) == [n EXCEPT !.armed = FALSE]

\* an armed request fires when a release takes the monitored quantity from
\* before to after and its condition (after >= watermark) is newly satisfied;
\* with watermark 0 any transfer is enough
Fires(n, before, after) ==
  n.set /\ n.armed /\ after >= n.wm /\ (before < n.wm \/ n.wm = 0)

\* sizes a writer acquire of req bytes may be granted
WriterGrants(ch, req) == Sizes(ch.g, 1, Min(req, ch.empty))

\* variant: the grant is not taken out of the free space, so the same bytes
\* can be granted again
RingIO_acquireW_Twice(ch, req, g) ==
  IF ch.empty = 0 \/ req = 0
  THEN [ch |-> [ch EXCEPT !.wN = Rearm(ch.wN)], status |-> "RINGIO_EBUFFULL",
        size |-> 0]
  ELSE [ch |-> [ch EXCEPT !.wAcq = ch.wAcq + g],
        status |-> "RINGIO_SUCCESS", size |-> g]

RingIO_acquireW(ch, req, g) ==
  IF ch.empty = 0 \/ req = 0
  THEN [ch |-> [ch EXCEPT !.wN = Rearm(ch.wN)], status |-> "RINGIO_EBUFFULL",
        size |-> 0]
  ELSE [ch |-> [ch EXCEPT !.empty = ch.empty - g, !.wAcq = ch.wAcq + g],
        status |-> "RINGIO_SUCCESS", size |-> g]

\* valid data joins the data item at the tail of the stream, if there is one
AppendData(items, n, s) ==
  IF Len(items) > 0 /\ items[Len(items)].k = "d"
  THEN [items EXCEPT ![Len(items)].n = items[Len(items)].n + n]
  ELSE Append(items, DataItem(n, s))

RingIO_releaseW(ch, size, stamp, ok) ==
  IF ~ok \/ size > ch.wAcq
  THEN [ch |-> ch, status |-> "RINGIO_EFAILURE", fire |-> FALSE]
  ELSE IF size = 0
  THEN [ch |-> ch, status |-> "RINGIO_SUCCESS", fire |-> FALSE]
  ELSE LET fire == Fires(ch.rN, ch.valid, ch.valid + size)
       IN [ch |-> [ch EXCEPT !.wAcq = ch.wAcq - size,
                             !.valid = ch.valid + size,
                             !.items = AppendData(ch.items, size, stamp),
                             !.rN = IF fire THEN Disarm(ch.rN) ELSE ch.rN],
           status |-> "RINGIO_SUCCESS", fire |-> fire]

\* variant: cancel forgets the acquired bytes without giving them back
RingIO_cancelW_Leak(ch) ==
  IF ch.wAcq = 0
  THEN [ch |-> ch, status |-> "RINGIO_EFAILURE"]
  ELSE [ch |-> [ch EXCEPT !.wAcq = 0], status |-> "RINGIO_SUCCESS"]

RingIO_cancelW(ch) ==
  IF ch.wAcq = 0
  THEN [ch |-> ch, status |-> "RINGIO_EFAILURE"]
  ELSE [ch |-> [ch EXCEPT !.empty = ch.empty + ch.wAcq, !.wAcq = 0],
        status |-> "RINGIO_SUCCESS"]

\* variant: the attribute goes in front of the data still in the ring
PlaceAttr_AtHead(items, a) == <<a>> \o items

\* an attribute set at offset 0 goes behind everything written so far
PlaceAttr(items, a) == Append(items, a)

RingIO_setAttribute(ch, type, param, stamp, ok) ==
  IF ~ok \/ AttrCount(ch) >= MaxAttr
  THEN [ch |-> ch, status |-> "RINGIO_EFAILURE"]
  ELSE [ch |-> [ch EXCEPT !.items = PlaceAttr(ch.items, FixedAttr(type, param, stamp))],
        status |-> "RINGIO_SUCCESS"]

RingIO_setvAttribute(ch, type, word, sz, stamp, ok) ==
  IF ~ok \/ AttrCount(ch) >= MaxAttr
  THEN [ch |-> ch, status |-> "RINGIO_EFAILURE"]
  ELSE [ch |-> [ch EXCEPT !.items = PlaceAttr(ch.items, VarAttr(type, word, sz, stamp))],
        status |-> "RINGIO_SUCCESS"]

\* sizes a reader acquire of req bytes may be granted: data up to the next attribute
ReaderGrants(ch, req) ==
  IF Len(ch.items) > 0 /\ ch.items[1].k = "d"
  THEN Sizes(ch.g, 1, Min(req, ch.items[1].n))
  ELSE {}

TakeData(items, g) ==
  IF items[1].n = g THEN Tail(items) ELSE [items EXCEPT ![1].n = items[1].n - g]

RingIO_acquireR(ch, req, g) ==
  IF Len(ch.items) = 0
  THEN [ch |-> [ch EXCEPT !.rN = Rearm(ch.rN)], status |-> "RINGIO_EBUFEMPTY",
        size |-> 0]
  ELSE IF IsAttr(ch.items[1])
  THEN [ch |-> ch, status |-> "RINGIO_SPENDINGATTRIBUTE", size |-> 0]
  ELSE IF req = 0
  THEN [ch |-> ch, status |-> "RINGIO_SUCCESS", size |-> 0]
  ELSE [ch |-> [ch EXCEPT !.valid = ch.valid - g, !.rAcq = ch.rAcq + g,
                          !.items = TakeData(ch.items, g)],
        status |-> "RINGIO_SUCCESS", size |-> g]

RingIO_releaseR(ch, size, ok) ==
  IF ~ok \/ size > ch.rAcq
  THEN [ch |-> ch, status |-> "RINGIO_EFAILURE", fire |-> FALSE]
  ELSE IF size = 0
  THEN [ch |-> ch, status |-> "RINGIO_SUCCESS", fire |-> FALSE]
  ELSE LET fire == Fires(ch.wN, ch.empty, ch.empty + size)
       IN [ch |-> [ch EXCEPT !.rAcq = ch.rAcq - size,
                             !.empty = ch.empty + size,
                             !.wN = IF fire THEN Disarm(ch.wN) ELSE ch.wN],
           status |-> "RINGIO_SUCCESS", fire |-> fire]

\* the status of a successful attribute read tells whether another attribute follows
AfterAttr(items) ==
  IF Len(items) > 0 /\ IsAttr(items[1])
  THEN "RINGIO_SPENDINGATTRIBUTE" ELSE "RINGIO_SUCCESS"

RingIO_getAttribute(ch) ==
  IF Len(ch.items) = 0
  THEN [ch |-> ch, status |-> "RINGIO_EFAILURE", type |-> 0, param |-> 0]
  ELSE IF ch.items[1].k = "d"
  THEN [ch |-> ch, status |-> "RINGIO_EPENDINGDATA", type |-> 0, param |-> 0]
  ELSE IF ch.items[1].k = "v"
  THEN [ch |-> ch, status |-> "RINGIO_EVARIABLEATTRIBUTE", type |-> 0, param |-> 0]
  ELSE [ch |-> [ch EXCEPT !.items = Tail(ch.items)],
        status |-> AfterAttr(Tail(ch.items)),
        type |-> ch.items[1].t, param |-> ch.items[1].n]

\* variant: the attribute is dropped when the buffer is too small
RingIO_getvAttribute_Drop(ch, bufSize) ==
  IF Len(ch.items) = 0
  THEN [ch |-> ch, status |-> "RINGIO_EFAILURE", type |-> 0, word |-> 0]
  ELSE IF ch.items[1].k = "d"
  THEN [ch |-> ch, status |-> "RINGIO_EPENDINGDATA", type |-> 0, word |-> 0]
  ELSE IF ch.items[1].sz > bufSize
  THEN [ch |-> [ch EXCEPT !.items = Tail(ch.items)],
        status |-> "RINGIO_EVARIABLEATTRIBUTE", type |-> 0, word |-> 0]
  ELSE [ch |-> [ch EXCEPT !.items = Tail(ch.items)],
        status |-> AfterAttr(Tail(ch.items)),
        type |-> ch.items[1].t, word |-> ch.items[1].n]

RingIO_getvAttribute(ch, bufSize) ==
  IF Len(ch.items) = 0
  THEN [ch |-> ch, status |-> "RINGIO_EFAILURE", type |-> 0, word |-> 0]
  ELSE IF ch.items[1].k = "d"
  THEN [ch |-> ch, status |-> "RINGIO_EPENDINGDATA", type |-> 0, word |-> 0]
  ELSE IF ch.items[1].sz > bufSize
  THEN [ch |-> ch, status |-> "RINGIO_EVARIABLEATTRIBUTE", type |-> 0, word |-> 0]
  ELSE [ch |-> [ch EXCEPT !.items = Tail(ch.items)],
        status |-> AfterAttr(Tail(ch.items)),
        type |-> ch.items[1].t, word |-> ch.items[1].n]

(***************************************************************************)
(* One Ring Channel under every sequence of calls: a producer and a        *)
(* consumer that call the channel's operations in any order, with any      *)
(* size.  hist records what the calls showed: wseq the last write stamp,   *)
(* cseq and prev the stamps of the last two items the consumer took,       *)
(* small whether the last call was a getvAttribute with too small a buffer,*)
(* lastFire the request the last call fired, qBefore the monitored         *)
(* quantity before it, due whether the last call was a release that left   *)
(* an armed request's quantity at or over its watermark, wSince and rSince *)
(* the fires of each request since it was armed.                           *)
(***************************************************************************)
ChanSizes == Sizes(Granule, 1, RING_IO_BufferSize)

Quiet(h) == [h EXCEPT !.lastFire = "none", !.due = "none", !.small = FALSE]

ChanInit ==
  /\ ring = NewRing(RING_IO_BufferSize, Granule)
  /\ hist = [wseq |-> 0, cseq |-> 0, prev |-> 0, lastFire |-> "none",
             qBefore |-> 0, due |-> "none", wSince |-> 0, rSince |-> 0,
             small |-> FALSE]

ChanRegister ==
  /\ \E side \in {"w", "r"}, wm \in {0} \cup ChanSizes :
       /\ ring' = RingIO_setNotifier(ring, side, wm)
       /\ hist' = IF side = "w" THEN [Quiet(hist) EXCEPT !.wSince = 0]
                  ELSE [Quiet(hist) EXCEPT !.rSince = 0]
  /\ UNCHANGED <<workerVars, ctlVars>>

ChanAcquireW ==
  /\ \E req \in ChanSizes :
       \E g \in IF WriterGrants(ring, req) = {} THEN {0} ELSE WriterGrants(ring, req) :
         LET r == RingIO_acquireW(ring, req, g)
         IN /\ ring' = r.ch
            /\ hist' = IF r.size = 0 /\ ring.wN.set
                       THEN [Quiet(hist) EXCEPT !.wSince = 0] ELSE Quiet(hist)
  /\ UNCHANGED <<workerVars, ctlVars>>

ChanReleaseW ==
  /\ \E size \in ChanSizes, ok \in BOOLEAN :
       LET r == RingIO_releaseW(ring, size, hist.wseq + 1, ok)
           due == /\ r.status = "RINGIO_SUCCESS" /\ ring.rN.set /\ ring.rN.armed
                  /\ ring.valid + size >= ring.rN.wm
                  /\ (ring.valid < ring.rN.wm \/ ring.rN.wm = 0)
       IN /\ hist.wseq < MaxStamp
          /\ hist.rSince < MaxSem
          /\ ring' = r.ch
          /\ hist' = [hist EXCEPT
                        !.wseq = IF r.status = "RINGIO_SUCCESS" THEN @ + 1 ELSE @,
                        !.lastFire = IF r.fire THEN "r" ELSE "none",
                        !.qBefore = ring.valid,
                        !.due = IF due THEN "r" ELSE "none",
                        !.rSince = IF r.fire THEN @ + 1 ELSE @,
                        !.small = FALSE]
  /\ UNCHANGED <<workerVars, ctlVars>>

ChanCancelW ==
  /\ ring' = RingIO_cancelW(ring).ch
  /\ hist' = Quiet(hist)
  /\ UNCHANGED <<workerVars, ctlVars>>

ChanSetAttribute ==
  /\ \E type \in {RINGIO_DATA_START, RINGIO_DATA_END}, ok \in BOOLEAN :
       LET r == RingIO_setAttribute(ring, type, 0, hist.wseq + 1, ok)
       IN /\ hist.wseq < MaxStamp
          /\ ring' = r.ch
          /\ hist' = [Quiet(hist) EXCEPT
                        !.wseq = IF r.status = "RINGIO_SUCCESS" THEN @ + 1 ELSE @]
  /\ UNCHANGED <<workerVars, ctlVars>>

ChanSetvAttribute ==
  /\ \E sz \in {VAttrBytes, 2 * VAttrBytes}, ok \in BOOLEAN :
       LET r == RingIO_setvAttribute(ring, 0, Granule, sz, hist.wseq + 1, ok)
       IN /\ hist.wseq < MaxStamp
          /\ ring' = r.ch
          /\ hist' = [Quiet(hist) EXCEPT
                        !.wseq = IF r.status = "RINGIO_SUCCESS" THEN @ + 1 ELSE @]
  /\ UNCHANGED <<workerVars, ctlVars>>

\* the consumer took the item at the head of the stream
Took(h, items) == [Quiet(h) EXCEPT !.prev = h.cseq, !.cseq = items[1].s]

ChanAcquireR ==
  /\ \E req \in ChanSizes :
       \E g \in IF ReaderGrants(ring, req) = {} THEN {0} ELSE ReaderGrants(ring, req) :
         LET r == RingIO_acquireR(ring, req, g)
         IN /\ ring' = r.ch
            /\ hist' = IF r.size > 0 THEN Took(hist, ring.items)
                       ELSE IF r.status = "RINGIO_EBUFEMPTY" /\ ring.rN.set
                       THEN [Quiet(hist) EXCEPT !.rSince = 0]
                       ELSE Quiet(hist)
  /\ UNCHANGED <<workerVars, ctlVars>>

ChanReleaseR ==
  /\ \E size \in ChanSizes, ok \in BOOLEAN :
       LET r == RingIO_releaseR(ring, size, ok)
           due == /\ r.status = "RINGIO_SUCCESS" /\ ring.wN.set /\ ring.wN.armed
                  /\ ring.empty + size >= ring.wN.wm
                  /\ (ring.empty < ring.wN.wm \/ ring.wN.wm = 0)
       IN /\ hist.wSince < MaxSem
          /\ ring' = r.ch
          /\ hist' = [hist EXCEPT
                        !.lastFire = IF r.fire THEN "w" ELSE "none",
                        !.qBefore = ring.empty,
                        !.due = IF due THEN "w" ELSE "none",
                        !.wSince = IF r.fire THEN @ + 1 ELSE @,
                        !.small = FALSE]
  /\ UNCHANGED <<workerVars, ctlVars>>

ChanGetAttribute ==
  /\ LET r == RingIO_getAttribute(ring)
     IN /\ ring' = r.ch
        /\ hist' = IF DSP_SUCCEEDED(r.status) THEN Took(hist, ring.items) ELSE Quiet(hist)
  /\ UNCHANGED <<workerVars, ctlVars>>

ChanGetvAttribute ==
  /\ \E bufSize \in {VAttrBytes, 2 * VAttrBytes} :
       LET r == RingIO_getvAttribute(ring, bufSize)
       IN /\ ring' = r.ch
          /\ hist' = IF DSP_SUCCEEDED(r.status) THEN Took(hist, ring.items)
                     ELSE [Quiet(hist) EXCEPT
                             !.small = r.status = "RINGIO_EVARIABLEATTRIBUTE"]
  /\ UNCHANGED <<workerVars, ctlVars>>

ChanNext ==
  \/ ChanRegister
  \/ ChanAcquireW
  \/ ChanReleaseW
  \/ ChanCancelW
  \/ ChanSetAttribute
  \/ ChanSetvAttribute
  \/ ChanAcquireR
  \/ ChanReleaseR
  \/ ChanGetAttribute
  \/ ChanGetvAttribute

(***************************************************************************)
(* The two workers and their peers.  Pair p is worker p                    *)
(* (RING_IO_WriterClient1 or RING_IO_WriterClient2), the ring chW[p] it    *)
(* writes, the ring chR[p] it reads, its two semaphores sem[p].W and       *)
(* sem[p].R, its flags fReaderStart[p] and fReaderEnd[p] and the DSP task  *)
(* at the other end of its two rings, peer[p].  w[p] holds the worker's    *)
(* locals and pc its position.  obs[p] records what happened to the        *)
(* frames of pair p; env holds the frames each worker may start and the    *)
(* transient failures injected so far.                                     *)
(***************************************************************************)
\* transient failures of setAttribute, setvAttribute and sendNotify
MaxFaults == 1

\* failures of RingIO_release
MaxRelFaults == 1

\* failed acquires of a writer that are counted (obs[p].blocks)
MaxBlocks == 2

Other(p) == 3 - p

BytesToTransfer(p) ==
  IF p = 1 THEN RING_IO_BytesToTransfer1 ELSE RING_IO_BytesToTransfer2

\* the sizes on the rings of pair p are multiples of half a frame
Unit(p) == BytesToTransfer(p) \div 2

\* size of the ring the worker writes, created by RING_IO_Create
WriterRingSize(p) == IF p = 1 THEN RING_IO_BufferSize ELSE RING_IO_BufferSize2

\* the worker's default acquire size on the ring it reads
ReaderBufSize(p) == IF p = 1 THEN RING_IO_BufferSize1 ELSE RING_IO_BufferSize3

\* watermark of the notifier the worker sets on the ring it writes
WriterWatermark(p) ==
  IF p = 1 THEN RING_IO_BytesToTransfer1 ELSE RING_IO_WRITER_BUF_SIZE

\* A Uint32 is kept as the 32-bit integer with the same bits: a value of
\* 2^31 or more is the negative integer 2^32 below it, and subtraction
\* modulo 2^32 is the subtraction of these integers.
Sub32(a, b) == a - b

\* the unsigned size a Uint32 asks for, as far as a ring can tell
Unsigned(n) == IF n < 0 THEN 2147483647 ELSE n

NoSem == [st |-> "null", n |-> 0]

RING_IO_CreateSem == [st |-> "live", n |-> 0]

RING_IO_DeleteSem(s) == IF s.st = "live" THEN [s EXCEPT !.st = "deleted"] ELSE s

RING_IO_PostSem(s) == IF s.st = "live" THEN [s EXCEPT !.n = @ + 1] ELSE s

\* RING_IO_WaitSem returns once a post is there to take
CanWait(s) == s.st # "live" \/ s.n > 0

RING_IO_WaitSem(s) ==
  IF s.st = "live"
  THEN [s |-> [s EXCEPT !.n = @ - 1], status |-> "RINGIO_SUCCESS"]
  ELSE [s |-> s, status |-> "RINGIO_EFAILURE"]

\* the callbacks: st holds the flags, post tells whether the semaphore is posted
RING_IO_Writer_Notify(p, s) == RING_IO_PostSem(s)

RING_IO_Reader_Notify1(msg, st) ==
  [fs |-> IF msg = NOTIFY_DATA_START THEN [st.fs EXCEPT ![1] = TRUE] ELSE st.fs,
   fe |-> IF msg = NOTIFY_DATA_END THEN [st.fe EXCEPT ![1] = TRUE] ELSE st.fe,
   post |-> TRUE]

\* variant: the callback of pair 2 sets the flags of pair 1
RING_IO_Reader_Notify2_Flags1(msg, st) ==
  [fs |-> IF msg = NOTIFY_DATA_START THEN [st.fs EXCEPT ![1] = TRUE] ELSE st.fs,
   fe |-> IF msg = NOTIFY_DATA_END THEN [st.fe EXCEPT ![1] = TRUE] ELSE st.fe,
   post |-> msg \in {NOTIFY_DATA_START, NOTIFY_DATA_END}]

RING_IO_Reader_Notify2(msg, st) ==
  [fs |-> IF msg = NOTIFY_DATA_START THEN [st.fs EXCEPT ![2] = TRUE] ELSE st.fs,
   fe |-> IF msg = NOTIFY_DATA_END THEN [st.fe EXCEPT ![2] = TRUE] ELSE st.fe,
   post |-> msg \in {NOTIFY_DATA_START, NOTIFY_DATA_END}]

RING_IO_Reader_Notify(p, msg, st) ==
  IF p = 1 THEN RING_IO_Reader_Notify1(msg, st) ELSE RING_IO_Reader_Notify2(msg, st)

\* message of a watermark notification
WatermarkMsg == 0

InitW ==
  [pc |-> "open", status |-> "RINGIO_SUCCESS", bytesTransfered |-> 0,
   acqSize |-> 0, rcvSize |-> RING_IO_BufferSize1, totalRcvbytes |-> 0,
   exitFlag |-> FALSE, wH |-> "null", rH |-> "null", frame |-> 0]

InitPeer ==
  [pcw |-> "idle", todo |-> 0, k |-> 0, left |-> 0, chunk |-> 0, cb |-> 0]

InitObs ==
  [sent |-> 0, cycles |-> 0, chunk |-> 0, uni |-> TRUE,
   ph |-> "out", got |-> 0, rep |-> -1, bad |-> FALSE,
   ov |-> [g |-> 0, r |-> 0, c |-> 0, bt0 |-> 0],
   nS |-> 0, nE |-> 0, mis |-> "none", missed |-> FALSE, woke |-> 0,
   nullCall |-> FALSE, blocks |-> 0, bye |-> 0]

WorkerInit ==
  /\ chW = [p \in Pairs |-> NewRing(WriterRingSize(p), Unit(p))]
  /\ chR = [p \in Pairs |-> NewRing(ReaderBufSize(p), Unit(p))]
  /\ w = [p \in Pairs |-> InitW]
  /\ sem = [p \in Pairs |-> [W |-> NoSem, R |-> NoSem]]
  /\ fReaderStart = [p \in Pairs |-> FALSE]
  /\ fReaderEnd = [p \in Pairs |-> FALSE]
  /\ Task_Run = TRUE
  /\ peer = [p \in Pairs |-> InitPeer]
  /\ obs = [p \in Pairs |-> InitObs]

(***************************************************************************)
(* The reader's check of a granted buffer.  vfy is the buffer of a grant,  *)
(* the status RING_IO_Reader_VerifyData returned for it and how far the    *)
(* reader has got with it.                                                 *)
(***************************************************************************)
MaxBuf == 6

\* the bytes of a buffer: the one RING_IO_InitBuffer writes, and another
Bytes == {XFER_VALUE, XFER_VALUE + 1}

\* the buffers of up to MaxBuf bytes
Buffers == UNION {[1..n -> Bytes] : n \in 0..MaxBuf}

\* no grant is being verified
NoBuffer == [pc |-> "none", buf |-> <<>>, status |-> "DSP_SOK"]

\* for (i = 0; DSP_SUCCEEDED (status) && (i < 20); i++) print *ptr8: the loop
\* prints the first byte and assigns nothing
RECURSIVE PrintLoop(_, _)
PrintLoop(status, i) ==
  IF DSP_SUCCEEDED(status) /\ i < 20 THEN PrintLoop(status, i + 1) ELSE status

\* status = DSP_SOK; the printing loop; the comparison with XFER_VALUE is
\* inside a comment; return (status)
RING_IO_Reader_VerifyData(buffer, size) == PrintLoop("DSP_SOK", 0)

\* the buffer differs from the pattern of RING_IO_InitBuffer in some byte
Differs(buffer) == \E i \in 1..Len(buffer) : buffer[i] # XFER_VALUE

\* if (DSP_SOK != RING_IO_Reader_VerifyData (bufPtr, acqSize)) print
VerifyGranted ==
  /\ vfy.pc = "granted"
  /\ vfy' = [vfy EXCEPT !.status = RING_IO_Reader_VerifyData(vfy.buf, Len(vfy.buf)),
                        !.pc = "verified"]
  /\ UNCHANGED <<workerVars, chanVars, ses, cli>>

\* RingIO_release of the granted bytes, whatever the check returned
ReleaseVerified ==
  /\ vfy.pc = "verified"
  /\ vfy' = [vfy EXCEPT !.pc = "released"]
  /\ UNCHANGED <<workerVars, chanVars, ses, cli>>

\* outcomes of a call that may fail transiently; env.faults failures are left
Oks == IF env.faults > 0 THEN {TRUE, FALSE} ELSE {TRUE}

Fault(ok) == env' = [env EXCEPT !.faults = IF ok THEN @ ELSE @ - 1]

\* outcomes of RingIO_release: env.rel failures are left
RelOks == IF env.rel > 0 THEN {TRUE, FALSE} ELSE {TRUE}

RelFault(ok) == env' = [env EXCEPT !.rel = IF ok THEN @ ELSE @ - 1]

Largest(S) == CHOOSE n \in S : \A m \in S : m <= n

\* the sizes of S tried on pair p: all of them for a pair of env.fine, the
\* largest otherwise; 0 if there is none
Choices(p, S) ==
  IF S = {} THEN {0} ELSE IF p \in env.fine THEN S ELSE {Largest(S)}

\* the frame length worker p reads in RING_IO_BytesToTransferN: the length
\* RING_IO_Create sets, or 0 for a pair of env.zero (a frame without end)
Target(p) == IF p \in env.zero THEN 0 ELSE BytesToTransfer(p)

\* variant: the STREAM loop stops one unit short of the frame length
NextStream_Short(p, bt) ==
  IF Target(p) = 0 \/ bt + Unit(p) < Target(p)
  THEN "setv" ELSE "setEnd"

\* the STREAM loop's condition
NextStream(p, bt) ==
  IF Target(p) = 0 \/ bt < Target(p) THEN "setv" ELSE "setEnd"

\* variant: the foot of READ_LOOP leaves acqSize as it is
NonZero_Keep(p, n) == n

\* if (acqSize == 0) acqSize = RING_IO_BufferSizeN at the foot of READ_LOOP
NonZero(p, n) == IF n = 0 THEN ReaderBufSize(p) ELSE n

\* RingIO_open returns NULL for a ring that does not exist: the worker sets
\* status to RINGIO_EFAILURE, skips the semaphore and the notifier of the
\* writer and goes on to open the ring it reads; it holds no handle on the
\* ring it writes.  A later call of the library with the NULL handle fails
\* and touches no ring; obs[p].nullCall records that one was made.
OpenWriterFail(p) ==
  /\ w[p].pc = "open"
  /\ ses.ring[p] # "created"
  /\ w' = [w EXCEPT ![p].pc = "openR", ![p].status = "RINGIO_EFAILURE"]
  /\ UNCHANGED <<chW, chR, sem, fReaderStart, fReaderEnd, Task_Run, peer, obs, env,
                 chanVars, ctlVars>>

\* open the ring in writer mode, create the semaphore, set the notifier
OpenWriter(p) ==
  /\ w[p].pc = "open"
  /\ ses.ring[p] = "created"
  /\ chW' = [chW EXCEPT ![p] = RingIO_setNotifier(@, "w", WriterWatermark(p))]
  /\ sem' = [sem EXCEPT ![p].W = RING_IO_CreateSem]
  /\ w' = [w EXCEPT ![p].pc = "openR", ![p].wH = "open",
                    ![p].status = "RINGIO_SUCCESS"]
  /\ UNCHANGED <<chR, fReaderStart, fReaderEnd, Task_Run, peer, obs, env, chanVars, ctlVars>>

\* open the ring in reader mode, create the semaphore, set the notifier
OpenReader(p) ==
  /\ w[p].pc = "openR"
  /\ chR' = [chR EXCEPT ![p] = RingIO_setNotifier(@, "r", 0)]
  /\ sem' = [sem EXCEPT ![p].R = RING_IO_CreateSem]
  /\ w' = [w EXCEPT ![p].pc = "top", ![p].rH = "open",
                    ![p].status = "RINGIO_SUCCESS"]
  /\ UNCHANGED <<chW, fReaderStart, fReaderEnd, Task_Run, peer, obs, env, chanVars, ctlVars>>

\* worker 1: getchar; '.' clears Task_Run and leaves the loop
Top1 ==
  /\ w[1].pc = "top"
  /\ \E c \in {".", "x"} :
       IF c = "."
       THEN /\ Task_Run' = FALSE
            /\ w' = [w EXCEPT ![1].pc = "endNotify"]
       ELSE /\ w[1].frame < env.budget[1]
            /\ Task_Run' = Task_Run
            /\ w' = [w EXCEPT ![1].pc = "setStart"]
  /\ UNCHANGED <<chW, chR, sem, fReaderStart, fReaderEnd, peer, obs, env, chanVars, ctlVars>>

\* variant: worker 2 starts a frame whatever Task_Run
Top2_AnyFlag ==
  /\ w[2].pc = "top"
  /\ w[2].frame < env.budget[2]
  /\ w' = [w EXCEPT ![2].pc = "setStart"]
  /\ UNCHANGED <<chW, chR, sem, fReaderStart, fReaderEnd, Task_Run, peer, obs, env,
                 chanVars, ctlVars>>

\* worker 2: leaves the loop when Task_Run is FALSE
Top2 ==
  /\ w[2].pc = "top"
  /\ IF Task_Run = FALSE
     THEN w' = [w EXCEPT ![2].pc = "endNotify"]
     ELSE /\ w[2].frame < env.budget[2]
          /\ w' = [w EXCEPT ![2].pc = "setStart"]
  /\ UNCHANGED <<chW, chR, sem, fReaderStart, fReaderEnd, Task_Run, peer, obs, env,
                 chanVars, ctlVars>>

\* set the RINGIO_DATA_START attribute, once
SetStart(p) ==
  /\ w[p].pc = "setStart"
  /\ IF DSP_FAILED(w[p].status)
     THEN /\ w' = [w EXCEPT ![p].pc = "frameEnd"]
          /\ UNCHANGED <<chW, obs, env>>
     ELSE IF w[p].wH # "open"
     THEN /\ w' = [w EXCEPT ![p].status = "RINGIO_EFAILURE", ![p].pc = "frameEnd"]
          /\ obs' = [obs EXCEPT ![p].nullCall = TRUE]
          /\ UNCHANGED <<chW, env>>
     ELSE \E ok \in Oks :
            LET r == RingIO_setAttribute(chW[p], RINGIO_DATA_START, 0,
                                         w[p].frame + 1, ok)
                done == r.status = "RINGIO_SUCCESS"
            IN /\ chW' = [chW EXCEPT ![p] = r.ch]
               /\ Fault(ok)
               /\ w' = [w EXCEPT ![p].status = r.status,
                                 ![p].frame = IF done THEN @ + 1 ELSE @,
                                 ![p].pc = IF done THEN "notifyStart" ELSE "frameEnd"]
               /\ obs' = IF done
                         THEN [obs EXCEPT ![p].sent = 0, ![p].cycles = 0,
                                          ![p].chunk = 0, ![p].uni = TRUE,
                                          ![p].ov = InitObs.ov]
                         ELSE obs
  /\ UNCHANGED <<chR, sem, fReaderStart, fReaderEnd, Task_Run, peer, chanVars, ctlVars>>

\* send NOTIFY_DATA_START until it succeeds
NotifyStart(p) ==
  /\ w[p].pc = "notifyStart"
  /\ \E ok \in Oks :
       /\ Fault(ok)
       /\ w' = [w EXCEPT
                  ![p].status = IF ok THEN "RINGIO_SUCCESS" ELSE "RINGIO_EFAILURE",
                  ![p].pc = IF ok THEN NextStream(p, w[p].bytesTransfered)
                            ELSE "notifyStart"]
  /\ UNCHANGED <<chW, chR, sem, fReaderStart, fReaderEnd, Task_Run, peer, obs,
                 chanVars, ctlVars>>

\* variant: the attribute carries what is left of the frame
AttrWord_Remaining(p) == Target(p) - w[p].bytesTransfered

\* attrs [0] = RING_IO_BytesToTransferN: the word of the variable attribute
AttrWord(p) == Target(p)

\* acqSize = RING_IO_BytesToTransferN: the size asked of RingIO_acquire
AcquireRequest(p) == Target(p)

\* set the variable attribute that announces the buffer; once it is set,
\* acqSize is the size to ask for
SetV(p) ==
  /\ w[p].pc = "setv"
  /\ \E ok \in Oks :
       LET r == RingIO_setvAttribute(chW[p], 0, AttrWord(p), VAttrBytes,
                                     w[p].frame, ok)
           done == r.status = "RINGIO_SUCCESS"
       IN /\ chW' = [chW EXCEPT ![p] = r.ch]
          /\ Fault(ok)
          /\ w' = [w EXCEPT ![p].status = r.status,
                            ![p].acqSize = IF done THEN AcquireRequest(p) ELSE @,
                            ![p].pc = IF done THEN "acqW" ELSE "setv"]
  /\ UNCHANGED <<chR, sem, fReaderStart, fReaderEnd, Task_Run, peer, obs, chanVars, ctlVars>>

\* acquire acqSize bytes of the ring the worker writes
AcquireW(p) ==
  /\ w[p].pc = "acqW"
  /\ \E g \in Choices(p, WriterGrants(chW[p], w[p].acqSize)) :
       LET r == RingIO_acquireW(chW[p], w[p].acqSize, g)
       IN /\ chW' = [chW EXCEPT ![p] = r.ch]
          /\ w' = [w EXCEPT ![p].status = r.status, ![p].acqSize = r.size,
                            ![p].pc = IF DSP_SUCCEEDED(r.status) /\ r.size > 0
                                      THEN "relW" ELSE "waitW"]
          /\ obs' = [obs EXCEPT
                       ![p].blocks = IF DSP_SUCCEEDED(r.status) /\ r.size > 0
                                     THEN @ ELSE Min(@ + 1, MaxBlocks)]
  /\ UNCHANGED <<chR, sem, fReaderStart, fReaderEnd, Task_Run, peer, env,
                 chanVars, ctlVars>>

\* the acquired size would take bytesTransfered over the frame length
Overshoot(p) ==
  /\ Target(p) # 0
  /\ w[p].bytesTransfered + w[p].acqSize > Target(p)

\* variant: the whole buffer is released even if it overshoots
ReleaseSize_Whole(p) == w[p].acqSize

\* the size released: the remainder of the frame if the buffer overshoots
ReleaseSize(p) ==
  IF Overshoot(p) THEN Target(p) - w[p].bytesTransfered ELSE w[p].acqSize

\* release the acquired buffer, or the remainder of the frame
ReleaseW(p) ==
  /\ w[p].pc = "relW"
  /\ \E ok \in RelOks :
     LET size == ReleaseSize(p)
         call == ~Overshoot(p) \/ w[p].bytesTransfered # Target(p)
         r == IF call THEN RingIO_releaseW(chW[p], size, w[p].frame, ok)
              ELSE [ch |-> chW[p], status |-> "RINGIO_EFAILURE", fire |-> FALSE]
         done == r.status = "RINGIO_SUCCESS"
         bt == IF done THEN w[p].bytesTransfered + w[p].acqSize
               ELSE w[p].bytesTransfered
     IN /\ call \/ ok
        /\ RelFault(ok)
        /\ chW' = [chW EXCEPT ![p] = r.ch]
        /\ w' = IF Overshoot(p)
                THEN [w EXCEPT ![p].pc = "cancelW"]
                ELSE [w EXCEPT ![p].bytesTransfered = bt,
                               ![p].pc = NextStream(p, bt)]
        /\ obs' = IF Overshoot(p)
                  THEN [obs EXCEPT
                          ![p].sent = IF done THEN @ + size ELSE @,
                          ![p].ov = [g |-> w[p].acqSize,
                                     r |-> IF done THEN size ELSE 0,
                                     c |-> 0, bt0 |-> w[p].bytesTransfered]]
                  ELSE [obs EXCEPT
                          ![p].sent = IF done THEN @ + size ELSE @,
                          ![p].cycles = @ + 1,
                          ![p].chunk = IF @ = 0 THEN w[p].acqSize ELSE @,
                          ![p].uni = @ /\ obs[p].chunk \in {0, w[p].acqSize}]
  /\ UNCHANGED <<chR, sem, fReaderStart, fReaderEnd, Task_Run, peer, chanVars, ctlVars>>

\* cancel the rest of the acquired buffer; bytesTransfered is the frame length
CancelW(p) ==
  /\ w[p].pc = "cancelW"
  /\ LET r == RingIO_cancelW(chW[p])
     IN /\ chW' = [chW EXCEPT ![p] = r.ch]
        /\ w' = [w EXCEPT ![p].status = r.status,
                          ![p].bytesTransfered = Target(p),
                          ![p].pc = NextStream(p, Target(p))]
        /\ obs' = [obs EXCEPT ![p].ov.c = chW[p].wAcq - r.ch.wAcq,
                              ![p].cycles = @ + 1, ![p].uni = FALSE]
  /\ UNCHANGED <<chR, sem, fReaderStart, fReaderEnd, Task_Run, peer, env, chanVars, ctlVars>>

\* the acquire failed: wait for the writer's notification
WaitW(p) ==
  /\ w[p].pc = "waitW"
  /\ CanWait(sem[p].W)
  /\ LET r == RING_IO_WaitSem(sem[p].W)
     IN /\ sem' = [sem EXCEPT ![p].W = r.s]
        /\ w' = [w EXCEPT ![p].status = r.status,
                          ![p].pc = NextStream(p, w[p].bytesTransfered)]
  /\ UNCHANGED <<chW, chR, fReaderStart, fReaderEnd, Task_Run, peer, obs, env,
                 chanVars, ctlVars>>

\* variant: the frame is closed with the attribute that opens one
EndType_Start == RINGIO_DATA_START

\* the type of the attribute that closes a frame
EndType == RINGIO_DATA_END

\* variant: the loop that sets RINGIO_DATA_END is left whatever the status
EndAccepted_Any(status) == TRUE

\* the loop that sets RINGIO_DATA_END is left on RINGIO_SUCCESS
EndAccepted(status) == status = "RINGIO_SUCCESS"

\* set the RINGIO_DATA_END attribute until it succeeds
SetEnd(p) ==
  /\ w[p].pc = "setEnd"
  /\ \E ok \in Oks :
       LET r == RingIO_setAttribute(chW[p], EndType, 0, w[p].frame, ok)
       IN /\ chW' = [chW EXCEPT ![p] = r.ch]
          /\ Fault(ok)
          /\ w' = [w EXCEPT ![p].bytesTransfered = 0,
                            ![p].status = r.status,
                            ![p].pc = IF EndAccepted(r.status)
                                      THEN "notifyEnd" ELSE "setEnd"]
  /\ UNCHANGED <<chR, sem, fReaderStart, fReaderEnd, Task_Run, peer, obs, chanVars, ctlVars>>

\* send NOTIFY_DATA_END, once
NotifyEnd(p) ==
  /\ w[p].pc = "notifyEnd"
  /\ \E ok \in Oks :
       /\ Fault(ok)
       /\ w' = [w EXCEPT
                  ![p].status = IF ok THEN "RINGIO_SUCCESS" ELSE "RINGIO_EFAILURE",
                  ![p].pc = IF ok THEN "waitStart" ELSE "frameEnd"]
  /\ UNCHANGED <<chW, chR, sem, fReaderStart, fReaderEnd, Task_Run, peer, obs,
                 chanVars, ctlVars>>

\* wait for the start notification of the answer
WaitStart(p) ==
  /\ w[p].pc = "waitStart"
  /\ CanWait(sem[p].R)
  /\ LET r == RING_IO_WaitSem(sem[p].R)
     IN /\ sem' = [sem EXCEPT ![p].R = r.s]
        /\ w' = [w EXCEPT ![p].status = r.status, ![p].pc = "chkStart"]
        /\ obs' = [obs EXCEPT
                     ![p].mis = IF @ = "none" /\ obs[p].nS < w[p].frame
                                THEN "stale" ELSE @]
  /\ UNCHANGED <<chW, chR, fReaderStart, fReaderEnd, Task_Run, peer, env, chanVars, ctlVars>>

\* if (fReaderStartN == TRUE) fReaderStartN = FALSE and read the attribute
ChkStart(p) ==
  /\ w[p].pc = "chkStart"
  /\ fReaderStart' = [fReaderStart EXCEPT ![p] = FALSE]
  /\ w' = [w EXCEPT ![p].pc = IF fReaderStart[p] THEN "getStart" ELSE "acqR",
                    ![p].acqSize = IF fReaderStart[p] THEN @ ELSE ReaderBufSize(p)]
  /\ obs' = [obs EXCEPT
               ![p].mis = IF @ = "none" /\ ~(fReaderStart[p] /\ obs[p].nS = w[p].frame)
                          THEN "late" ELSE @]
  /\ UNCHANGED <<chW, chR, sem, fReaderEnd, Task_Run, peer, env, chanVars, ctlVars>>

\* getAttribute until RINGIO_SUCCESS or RINGIO_SPENDINGATTRIBUTE
GetStart(p) ==
  /\ w[p].pc = "getStart"
  /\ LET r == RingIO_getAttribute(chR[p])
     IN /\ chR' = [chR EXCEPT ![p] = r.ch]
        /\ w' = [w EXCEPT ![p].status = r.status,
                          ![p].acqSize = IF DSP_SUCCEEDED(r.status)
                                         THEN ReaderBufSize(p) ELSE @,
                          ![p].pc = IF DSP_SUCCEEDED(r.status)
                                    THEN "acqR" ELSE "getStart"]
  /\ UNCHANGED <<chW, sem, fReaderStart, fReaderEnd, Task_Run, peer, obs, env,
                 chanVars, ctlVars>>

\* READ_LOOP: acquire acqSize bytes of the ring the worker reads
AcquireR(p) ==
  /\ w[p].pc = "acqR"
  /\ \E g \in Choices(p, ReaderGrants(chR[p], Unsigned(w[p].acqSize))) :
       LET r == RingIO_acquireR(chR[p], Unsigned(w[p].acqSize), g)
           data == r.status = "RINGIO_SUCCESS" \/ r.size > 0
           attr == r.status = "RINGIO_SPENDINGATTRIBUTE" /\ r.size = 0
           none == r.status \in {"RINGIO_EFAILURE", "RINGIO_EBUFEMPTY"}
       IN /\ chR' = [chR EXCEPT ![p] = r.ch]
          /\ w' = [w EXCEPT
                     ![p].status = r.status,
                     ![p].acqSize = IF data \/ attr \/ none THEN r.size
                                    ELSE ReaderBufSize(p),
                     ![p].rcvSize = IF data THEN Sub32(@, r.size) ELSE @,
                     ![p].totalRcvbytes = IF data THEN @ + r.size ELSE @,
                     ![p].pc = IF data THEN "relR"
                               ELSE IF attr THEN "getAttrR"
                               ELSE IF none THEN "waitR" ELSE "acqR"]
          /\ obs' = [obs EXCEPT ![p].woke = IF data \/ attr THEN 0 ELSE @]
  /\ UNCHANGED <<chW, sem, fReaderStart, fReaderEnd, Task_Run, peer, env, chanVars, ctlVars>>

\* release the acquired buffer and set the next acquire size
ReleaseR(p) ==
  /\ w[p].pc = "relR"
  /\ \E ok \in RelOks :
     LET r == RingIO_releaseR(chR[p], w[p].acqSize, ok)
     IN /\ RelFault(ok)
        /\ chR' = [chR EXCEPT ![p] = r.ch]
        /\ w' = [w EXCEPT
                   ![p].rcvSize = IF @ = 0 THEN ReaderBufSize(p) ELSE @,
                   ![p].acqSize = IF w[p].rcvSize = 0 THEN ReaderBufSize(p)
                                  ELSE NonZero(p, w[p].rcvSize),
                   ![p].pc = "acqR"]
  /\ UNCHANGED <<chW, sem, fReaderStart, fReaderEnd, Task_Run, peer, obs,
                 chanVars, ctlVars>>

\* an attribute is pending: read it; RINGIO_DATA_END ends the loop
GetAttrR(p) ==
  /\ w[p].pc = "getAttrR"
  /\ LET r == RingIO_getAttribute(chR[p])
         end == DSP_SUCCEEDED(r.status) /\ r.type = RINGIO_DATA_END
     IN /\ chR' = [chR EXCEPT ![p] = r.ch]
        /\ w' = [w EXCEPT
                   ![p].exitFlag = end,
                   ![p].acqSize = NonZero(p, @),
                   ![p].pc = IF end THEN "frameEnd"
                             ELSE IF r.status = "RINGIO_EVARIABLEATTRIBUTE"
                             THEN "getvAttrR" ELSE "acqR"]
  /\ UNCHANGED <<chW, sem, fReaderStart, fReaderEnd, Task_Run, peer, obs, env,
                 chanVars, ctlVars>>

\* a variable attribute is pending: its first word is the size to receive
GetvAttrR(p) ==
  /\ w[p].pc = "getvAttrR"
  /\ LET r == RingIO_getvAttribute(chR[p], VAttrBytes)
     IN /\ chR' = [chR EXCEPT ![p] = r.ch]
        /\ w' = [w EXCEPT
                   ![p].rcvSize = IF DSP_SUCCEEDED(r.status) THEN r.word ELSE @,
                   ![p].acqSize = IF DSP_SUCCEEDED(r.status)
                                  THEN NonZero(p, r.word) ELSE NonZero(p, @),
                   ![p].pc = "acqR"]
  /\ UNCHANGED <<chW, sem, fReaderStart, fReaderEnd, Task_Run, peer, obs, env,
                 chanVars, ctlVars>>

\* nothing there: wait for the reader's notification
WaitR(p) ==
  /\ w[p].pc = "waitR"
  /\ CanWait(sem[p].R)
  /\ LET r == RING_IO_WaitSem(sem[p].R)
     IN /\ sem' = [sem EXCEPT ![p].R = r.s]
        /\ w' = [w EXCEPT ![p].status = r.status,
                          ![p].acqSize = NonZero(p, @),
                          ![p].pc = "acqR"]
        /\ obs' = [obs EXCEPT ![p].woke = 0]
  /\ UNCHANGED <<chW, chR, fReaderStart, fReaderEnd, Task_Run, peer, env, chanVars, ctlVars>>

\* if (fReaderEndN != TRUE) wait for the end notification
FrameEnd(p) ==
  /\ w[p].pc = "frameEnd"
  /\ w' = [w EXCEPT ![p].pc = IF fReaderEnd[p] # TRUE THEN "waitEnd" ELSE "reset"]
  /\ UNCHANGED <<chW, chR, sem, fReaderStart, fReaderEnd, Task_Run, peer, obs, env,
                 chanVars, ctlVars>>

WaitEnd(p) ==
  /\ w[p].pc = "waitEnd"
  /\ CanWait(sem[p].R)
  /\ LET r == RING_IO_WaitSem(sem[p].R)
     IN /\ sem' = [sem EXCEPT ![p].R = r.s]
        /\ w' = [w EXCEPT ![p].status = r.status, ![p].pc = "reset"]
  /\ UNCHANGED <<chW, chR, fReaderStart, fReaderEnd, Task_Run, peer, obs, env,
                 chanVars, ctlVars>>

\* the frame is over: reset the counters and fReaderEndN
Reset(p) ==
  /\ w[p].pc = "reset"
  /\ fReaderEnd' = [fReaderEnd EXCEPT ![p] = FALSE]
  /\ w' = [w EXCEPT ![p].totalRcvbytes = 0, ![p].rcvSize = ReaderBufSize(p),
                    ![p].exitFlag = FALSE, ![p].pc = "top"]
  /\ obs' = [obs EXCEPT
               ![p].mis = IF @ = "none" /\ obs[p].nE < w[p].frame
                          THEN "early" ELSE @]
  /\ UNCHANGED <<chW, chR, sem, fReaderStart, Task_Run, peer, env, chanVars, ctlVars>>

\* variant: NOTIFY_DSP_END is sent once, whatever the status
EndNotifyAgain_Never(tmpStatus) == FALSE

\* the loop that sends NOTIFY_DSP_END goes round while the call failed
EndNotifyAgain(tmpStatus) == DSP_FAILED(tmpStatus)

\* send NOTIFY_DSP_END until it succeeds; obs[p].bye is the message of the
\* notification that was delivered
EndNotify(p) ==
  /\ w[p].pc = "endNotify"
  /\ IF w[p].wH # "open"
     THEN /\ w' = [w EXCEPT ![p].status = "RINGIO_EFAILURE"]
          /\ obs' = [obs EXCEPT ![p].nullCall = TRUE]
          /\ env' = env
     ELSE \E ok \in Oks :
            LET tmpStatus == IF ok THEN "RINGIO_SUCCESS" ELSE "RINGIO_EFAILURE"
            IN /\ Fault(ok)
               /\ w' = [w EXCEPT
                          ![p].status = tmpStatus,
                          ![p].pc = IF EndNotifyAgain(tmpStatus)
                                    THEN "endNotify" ELSE "delSemW"]
               /\ obs' = [obs EXCEPT ![p].bye = IF ok THEN NOTIFY_DSP_END ELSE @]
  /\ UNCHANGED <<chW, chR, sem, fReaderStart, fReaderEnd, Task_Run, peer,
                 chanVars, ctlVars>>

\* variant: the worker deletes the writer semaphore of both pairs
DelSemW_Both(p) ==
  /\ w[p].pc = "delSemW"
  /\ sem' = [q \in Pairs |-> [sem[q] EXCEPT !.W = RING_IO_DeleteSem(@)]]
  /\ w' = [w EXCEPT ![p].pc = "drain"]
  /\ UNCHANGED <<chW, chR, fReaderStart, fReaderEnd, Task_Run, peer, obs, env,
                 chanVars, ctlVars>>

\* delete the writer's semaphore
DelSemW(p) ==
  /\ w[p].pc = "delSemW"
  /\ sem' = [sem EXCEPT ![p].W = RING_IO_DeleteSem(@)]
  /\ w' = [w EXCEPT ![p].pc = "drain"]
  /\ UNCHANGED <<chW, chR, fReaderStart, fReaderEnd, Task_Run, peer, obs, env,
                 chanVars, ctlVars>>

\* variant: the ring is closed without waiting for it to drain
Drain_NoWait(p) ==
  /\ w[p].pc = "drain"
  /\ w' = [w EXCEPT ![p].wH = IF @ = "open" THEN "closed" ELSE @,
                    ![p].pc = "closeR"]
  /\ UNCHANGED <<chW, chR, sem, fReaderStart, fReaderEnd, Task_Run, peer, obs, env,
                 chanVars, ctlVars>>

\* wait until the ring holds no data and no attribute, then close it
Drain(p) ==
  /\ w[p].pc = "drain"
  /\ w[p].wH = "open" =>
       RingIO_getValidSize(chW[p]) = 0 /\ RingIO_getValidAttrSize(chW[p]) = 0
  /\ w' = [w EXCEPT ![p].wH = IF @ = "open" THEN "closed" ELSE @,
                    ![p].pc = "closeR"]
  /\ UNCHANGED <<chW, chR, sem, fReaderStart, fReaderEnd, Task_Run, peer, obs, env,
                 chanVars, ctlVars>>

\* delete the reader's semaphore and close the ring the worker reads
CloseR(p) ==
  /\ w[p].pc = "closeR"
  /\ sem' = [sem EXCEPT ![p].R = RING_IO_DeleteSem(@)]
  /\ w' = [w EXCEPT ![p].rH = IF @ = "open" THEN "closed" ELSE @,
                    ![p].pc = "done"]
  /\ UNCHANGED <<chW, chR, fReaderStart, fReaderEnd, Task_Run, peer, obs, env,
                 chanVars, ctlVars>>

(***************************************************************************)
(* The peer of pair p: it drains chW[p], and answers every frame it was    *)
(* sent with a frame of the same length on chR[p], by the protocol of the  *)
(* writer: start attribute, start notification, then for every buffer a    *)
(* variable attribute with its size and the data, end attribute, end       *)
(* notification.  A notification runs the worker's callback, which sets    *)
(* the flag at once; the post of the semaphore follows as a step of its    *)
(* own (peer[p].cb counts the posts on their way).                         *)
(***************************************************************************)
\* the callback of the worker's reader notifier runs with message msg
Raise(p, msg) ==
  LET r == RING_IO_Reader_Notify(p, msg, [fs |-> fReaderStart, fe |-> fReaderEnd])
  IN [fs |-> r.fs, fe |-> r.fe, post |-> IF r.post THEN 1 ELSE 0]

\* the peer reads the attribute at the head of chW[p]
PeerGetAttribute(p) ==
  /\ Len(chW[p].items) > 0 /\ IsAttr(chW[p].items[1])
  /\ LET it == chW[p].items[1]
         r == IF it.k = "f" THEN RingIO_getAttribute(chW[p])
              ELSE RingIO_getvAttribute(chW[p], it.sz)
         start == it.k = "f" /\ it.t = RINGIO_DATA_START
         end == it.k = "f" /\ it.t = RINGIO_DATA_END
     IN /\ chW' = [chW EXCEPT ![p] = r.ch]
        /\ peer' = [peer EXCEPT ![p].todo = IF start THEN @ + 1 ELSE @]
        /\ obs' = [obs EXCEPT
                     ![p].ph = IF start THEN "in" ELSE IF end THEN "out" ELSE @,
                     ![p].got = IF start THEN 0 ELSE @,
                     ![p].rep = IF end THEN obs[p].got ELSE IF start THEN -1 ELSE @,
                     ![p].bad = @ \/ (start /\ obs[p].ph # "out")
                                  \/ (~start /\ obs[p].ph # "in")]
  /\ UNCHANGED <<chR, w, sem, fReaderStart, fReaderEnd, Task_Run, env, chanVars, ctlVars>>

\* the peer acquires and releases data at the head of chW[p]; the release
\* may fire the writer's notifier, whose callback posts the semaphore
PeerConsume(p) ==
  /\ ReaderGrants(chW[p], chW[p].cap) # {}
  /\ \E g \in Choices(p, ReaderGrants(chW[p], chW[p].cap)) :
       LET a == RingIO_acquireR(chW[p], g, g)
           r == RingIO_releaseR(a.ch, g, TRUE)
       IN /\ r.fire => sem[p].W.n < MaxSem
          /\ chW' = [chW EXCEPT ![p] = r.ch]
          /\ sem' = [sem EXCEPT ![p].W = IF r.fire THEN RING_IO_Writer_Notify(p, @)
                                         ELSE @]
          /\ obs' = [obs EXCEPT ![p].got = @ + g,
                                ![p].bad = @ \/ obs[p].ph # "in"]
  /\ UNCHANGED <<chR, w, fReaderStart, fReaderEnd, Task_Run, peer, env, chanVars, ctlVars>>

PeerSetStart(p) ==
  /\ peer[p].pcw = "idle" /\ peer[p].todo > 0
  /\ LET r == RingIO_setAttribute(chR[p], RINGIO_DATA_START, 0, peer[p].k + 1, TRUE)
     IN /\ r.status = "RINGIO_SUCCESS"
        /\ chR' = [chR EXCEPT ![p] = r.ch]
        /\ peer' = [peer EXCEPT ![p].pcw = "nStart", ![p].todo = @ - 1,
                                ![p].k = @ + 1]
  /\ UNCHANGED <<chW, w, sem, fReaderStart, fReaderEnd, Task_Run, obs, env, chanVars, ctlVars>>

PeerNotifyStart(p) ==
  /\ peer[p].pcw = "nStart"
  /\ LET r == Raise(p, NOTIFY_DATA_START)
     IN /\ fReaderStart' = r.fs
        /\ fReaderEnd' = r.fe
        /\ peer' = [peer EXCEPT ![p].pcw = "vattr", ![p].left = BytesToTransfer(p),
                                ![p].cb = @ + r.post]
        /\ obs' = [obs EXCEPT
                     ![p].nS = @ + 1,
                     ![p].mis = IF @ = "none" /\ fReaderStart[p] THEN "overwritten"
                                ELSE @]
  /\ UNCHANGED <<chW, chR, w, sem, Task_Run, env, chanVars, ctlVars>>

\* the word by which the peer declares a chunk of c bytes: c, or 0 from a
\* peer of env.odd that declares no size
PeerWord(c) == IF "zero" \in env.odd THEN 0 ELSE c

\* the bytes of the peer's variable attribute: one word, or two from a peer
\* of env.odd that sends a longer payload
PeerAttrBytes == IF "big" \in env.odd THEN 2 * VAttrBytes ELSE VAttrBytes

PeerSetV(p) ==
  /\ peer[p].pcw = "vattr"
  /\ \E c \in Choices(p, Sizes(Unit(p), 1, peer[p].left)) :
       LET r == RingIO_setvAttribute(chR[p], 0, PeerWord(c), PeerAttrBytes,
                                     peer[p].k, TRUE)
       IN /\ r.status = "RINGIO_SUCCESS"
          /\ chR' = [chR EXCEPT ![p] = r.ch]
          /\ peer' = [peer EXCEPT ![p].pcw = "data", ![p].chunk = c]
  /\ UNCHANGED <<chW, w, sem, fReaderStart, fReaderEnd, Task_Run, obs, env, chanVars, ctlVars>>

\* the peer acquires and releases data on chR[p]; the release may fire the
\* reader's notifier, whose callback runs with the watermark message
PeerData(p) ==
  /\ peer[p].pcw = "data"
  /\ WriterGrants(chR[p], peer[p].chunk) # {}
  /\ \E g \in Choices(p, WriterGrants(chR[p], peer[p].chunk)) :
       LET a == RingIO_acquireW(chR[p], g, g)
           r == RingIO_releaseW(a.ch, g, peer[p].k, TRUE)
           cb == IF r.fire THEN Raise(p, WatermarkMsg)
                 ELSE [fs |-> fReaderStart, fe |-> fReaderEnd, post |-> 0]
           chunk == peer[p].chunk - g
           left == peer[p].left - g
           blocked == w[p].pc = "waitR" /\ sem[p].R.n = 0 /\ peer[p].cb = 0
       IN /\ chR' = [chR EXCEPT ![p] = r.ch]
          /\ fReaderStart' = cb.fs
          /\ fReaderEnd' = cb.fe
          /\ peer' = [peer EXCEPT
                        ![p].chunk = chunk, ![p].left = left,
                        ![p].cb = @ + cb.post,
                        ![p].pcw = IF chunk > 0 THEN "data"
                                   ELSE IF left > 0 THEN "vattr" ELSE "end"]
          /\ obs' = [obs EXCEPT
                       ![p].woke = IF blocked THEN g ELSE @,
                       ![p].missed = @ \/ (blocked /\ cb.post = 0)]
  /\ UNCHANGED <<chW, w, sem, Task_Run, env, chanVars, ctlVars>>

PeerSetEnd(p) ==
  /\ peer[p].pcw = "end"
  /\ LET r == RingIO_setAttribute(chR[p], RINGIO_DATA_END, 0, peer[p].k, TRUE)
     IN /\ r.status = "RINGIO_SUCCESS"
        /\ chR' = [chR EXCEPT ![p] = r.ch]
        /\ peer' = [peer EXCEPT ![p].pcw = "nEnd"]
  /\ UNCHANGED <<chW, w, sem, fReaderStart, fReaderEnd, Task_Run, obs, env, chanVars, ctlVars>>

PeerNotifyEnd(p) ==
  /\ peer[p].pcw = "nEnd"
  /\ LET r == Raise(p, NOTIFY_DATA_END)
     IN /\ fReaderStart' = r.fs
        /\ fReaderEnd' = r.fe
        /\ peer' = [peer EXCEPT ![p].pcw = "idle", ![p].cb = @ + r.post]
        /\ obs' = [obs EXCEPT
                     ![p].nE = @ + 1,
                     ![p].mis = IF @ = "none" /\ fReaderEnd[p] THEN "overwritten"
                                ELSE @]
  /\ UNCHANGED <<chW, chR, w, sem, Task_Run, env, chanVars, ctlVars>>

\* the callback's RING_IO_PostSem on the reader's semaphore
CallbackPost(p) ==
  /\ peer[p].cb > 0
  /\ sem[p].R.n < MaxSem
  /\ sem' = [sem EXCEPT ![p].R = RING_IO_PostSem(@)]
  /\ peer' = [peer EXCEPT ![p].cb = @ - 1]
  /\ UNCHANGED <<chW, chR, w, fReaderStart, fReaderEnd, Task_Run, obs, env, chanVars, ctlVars>>

WorkerStep(p) ==
  \/ OpenWriter(p) \/ OpenReader(p)
  \/ (p = 1 /\ Top1) \/ (p = 2 /\ Top2)
  \/ SetStart(p) \/ NotifyStart(p) \/ SetV(p) \/ AcquireW(p) \/ ReleaseW(p)
  \/ CancelW(p) \/ WaitW(p) \/ SetEnd(p) \/ NotifyEnd(p)
  \/ WaitStart(p) \/ ChkStart(p) \/ GetStart(p)
  \/ AcquireR(p) \/ ReleaseR(p) \/ GetAttrR(p) \/ GetvAttrR(p) \/ WaitR(p)
  \/ FrameEnd(p) \/ WaitEnd(p) \/ Reset(p)
  \/ EndNotify(p) \/ DelSemW(p) \/ Drain(p) \/ CloseR(p)

PeerStep(p) ==
  \/ PeerGetAttribute(p) \/ PeerConsume(p)
  \/ PeerSetStart(p) \/ PeerNotifyStart(p) \/ PeerSetV(p) \/ PeerData(p)
  \/ PeerSetEnd(p) \/ PeerNotifyEnd(p)
  \/ CallbackPost(p)

Next ==
  \/ \E p \in env.run : OpenWriter(p)
  \/ \E p \in env.run : OpenReader(p)
  \/ 1 \in env.run /\ Top1
  \/ 2 \in env.run /\ Top2
  \/ \E p \in env.run : SetStart(p)
  \/ \E p \in env.run : NotifyStart(p)
  \/ \E p \in env.run : SetV(p)
  \/ \E p \in env.run : AcquireW(p)
  \/ \E p \in env.run : ReleaseW(p)
  \/ \E p \in env.run : CancelW(p)
  \/ \E p \in env.run : WaitW(p)
  \/ \E p \in env.run : SetEnd(p)
  \/ \E p \in env.run : NotifyEnd(p)
  \/ \E p \in env.run : WaitStart(p)
  \/ \E p \in env.run : ChkStart(p)
  \/ \E p \in env.run : GetStart(p)
  \/ \E p \in env.run : AcquireR(p)
  \/ \E p \in env.run : ReleaseR(p)
  \/ \E p \in env.run : GetAttrR(p)
  \/ \E p \in env.run : GetvAttrR(p)
  \/ \E p \in env.run : WaitR(p)
  \/ \E p \in env.run : FrameEnd(p)
  \/ \E p \in env.run : WaitEnd(p)
  \/ \E p \in env.run : Reset(p)
  \/ \E p \in env.run : EndNotify(p)
  \/ \E p \in env.run : DelSemW(p)
  \/ \E p \in env.run : Drain(p)
  \/ \E p \in env.run : CloseR(p)
  \/ \E p \in env.run : PeerGetAttribute(p)
  \/ \E p \in env.run : PeerConsume(p)
  \/ \E p \in env.run : PeerSetStart(p)
  \/ \E p \in env.run : PeerNotifyStart(p)
  \/ \E p \in env.run : PeerSetV(p)
  \/ \E p \in env.run : PeerData(p)
  \/ \E p \in env.run : PeerSetEnd(p)
  \/ \E p \in env.run : PeerNotifyEnd(p)
  \/ \E p \in env.run : CallbackPost(p)

(***************************************************************************)
(* Session controller: RING_IO_Main calls RING_IO_Create, starts the two   *)
(* workers, joins them and calls RING_IO_Delete.  ses.status tells whether *)
(* the DSP_STATUS of the controller is a success; ses.steps lists the      *)
(* calls RING_IO_Create made, each with its outcome; ses.ran the calls     *)
(* RING_IO_Delete made; ses.failed the calls that failed and ses.logged    *)
(* those whose failure was printed; ses.ring the rings the host creates    *)
(* (RINGIO1 for pair 1, RINGIO3 for pair 2).  PROC, POOL and the client    *)
(* threads are not part of the sources: a call of theirs succeeds or       *)
(* fails.                                                                  *)
(***************************************************************************)
\* failures among the calls of RING_IO_Delete after the deletes
MaxTeardownFaults == 2

\* DSPs of the configuration
MAX_DSPS == 1

\* Uint8 processorId = 0 in RING_IO_Main
processorId == 0

SetupSteps ==
  <<"RING_IO_OS_init", "PROC_setup", "PROC_attach", "POOL_open", "PROC_load",
    "RingIO_create1", "RingIO_create2", "PROC_start">>

SesInit(exe) ==
  [pc |-> "main", exe |-> exe, status |-> TRUE,
   ring |-> [p \in Pairs |-> "none"], dels |-> [p \in Pairs |-> 0],
   steps |-> <<>>, spawned |-> {}, failed |-> {}, logged |-> {}, ran |-> <<>>,
   tf |-> MaxTeardownFaults]

\* RING_IO_Create has succeeded and both workers are started
SesRunning ==
  [SesInit("image") EXCEPT
     !.pc = "RING_IO_Join_client1",
     !.ring = [p \in Pairs |-> "created"],
     !.steps = [i \in 1..Len(SetupSteps) |-> [s |-> SetupSteps[i], ok |-> TRUE]],
     !.spawned = Pairs]

\* RING_IO_Main: the arguments; a NULL executable or a processor id out of
\* range ends the session with neither RING_IO_Create nor RING_IO_Delete
MainEnter ==
  /\ ses.pc = "main"
  /\ ses' = IF ses.exe = "null"
            THEN [ses EXCEPT !.pc = "done", !.status = FALSE,
                             !.logged = @ \cup {"arguments"}]
            ELSE IF processorId >= MAX_DSPS
            THEN [ses EXCEPT !.pc = "done", !.status = FALSE,
                             !.logged = @ \cup {"processorId"}]
            ELSE [ses EXCEPT !.pc = "RING_IO_OS_init"]
  /\ UNCHANGED <<workerVars, chanVars, cli, vfy>>

\* a call of RING_IO_Create: made if always, or if the status so far is a
\* success; its outcome is the new status, a failure is printed; a
\* successful RingIO_create creates the rings named
SetupCall(name, always, next, rings) ==
  /\ ses.pc = name
  /\ IF always \/ ses.status
     THEN \E ok \in BOOLEAN :
            ses' = [ses EXCEPT
                      !.pc = next, !.status = ok,
                      !.steps = Append(@, [s |-> name, ok |-> ok]),
                      !.failed = IF ok THEN @ ELSE @ \cup {name},
                      !.logged = IF ok THEN @ ELSE @ \cup {name},
                      !.ring = IF ok
                               THEN [p \in Pairs |->
                                       IF p \in rings THEN "created" ELSE ses.ring[p]]
                               ELSE @]
     ELSE ses' = [ses EXCEPT !.pc = next]
  /\ UNCHANGED <<workerVars, chanVars, cli, vfy>>

\* status = RING_IO_OS_init (): a failure is printed, the status is
\* overwritten by PROC_setup
RING_IO_OS_init == SetupCall("RING_IO_OS_init", TRUE, "PROC_setup", {})

PROC_setup == SetupCall("PROC_setup", TRUE, "PROC_attach", {})

PROC_attach == SetupCall("PROC_attach", FALSE, "POOL_open", {})

POOL_open == SetupCall("POOL_open", FALSE, "PROC_load", {})

\* variant: the image is loaded whatever the status of the calls before
PROC_load_Always == SetupCall("PROC_load", TRUE, "RingIO_create1", {})

PROC_load == SetupCall("PROC_load", FALSE, "RingIO_create1", {})

RingIO_create1 == SetupCall("RingIO_create1", FALSE, "RingIO_create2", {1})

RingIO_create2 == SetupCall("RingIO_create2", FALSE, "PROC_start", {2})

PROC_start == SetupCall("PROC_start", FALSE, "RING_IO_Create_client1", {})

\* RING_IO_Create_client for worker p, made at pc name; on success the
\* thread runs; only the failure to start worker 2 is printed
Spawn(p, name, ok, next) ==
  /\ ses' = [ses EXCEPT
               !.pc = next, !.status = ok,
               !.spawned = IF ok THEN @ \cup {p} ELSE @,
               !.failed = IF ok THEN @ ELSE @ \cup {name},
               !.logged = IF ok \/ p = 1 THEN @ ELSE @ \cup {name}]
  /\ env' = [env EXCEPT !.run = IF ok THEN @ \cup {p} ELSE @]

\* worker 1 is started if RING_IO_Create succeeded
RING_IO_Create_client1 ==
  /\ ses.pc = "RING_IO_Create_client1"
  /\ IF ses.status
     THEN \E ok \in BOOLEAN :
            Spawn(1, "RING_IO_Create_client1", ok,
                  IF ok THEN "RING_IO_Create_client2" ELSE "RING_IO_Join_client1")
     ELSE /\ ses' = [ses EXCEPT !.pc = "RING_IO_Join_client1"]
          /\ env' = env
  /\ UNCHANGED <<chW, chR, w, sem, fReaderStart, fReaderEnd, Task_Run, peer, obs,
                 chanVars, cli, vfy>>

\* worker 2 is started if worker 1 was
RING_IO_Create_client2 ==
  /\ ses.pc = "RING_IO_Create_client2"
  /\ \E ok \in BOOLEAN :
       Spawn(2, "RING_IO_Create_client2", ok, "RING_IO_Join_client1")
  /\ UNCHANGED <<chW, chR, w, sem, fReaderStart, fReaderEnd, Task_Run, peer, obs,
                 chanVars, cli, vfy>>

\* if (DSP_SUCCEEDED (status)): wait for worker 1 to terminate; otherwise
\* neither worker is joined
RING_IO_Join_client1 ==
  /\ ses.pc = "RING_IO_Join_client1"
  /\ IF ses.status
     THEN /\ w[1].pc = "done"
          /\ ses' = [ses EXCEPT !.pc = "RING_IO_Join_client2"]
     ELSE ses' = [ses EXCEPT !.pc = "RingIO_delete1"]
  /\ UNCHANGED <<workerVars, chanVars, cli, vfy>>

\* wait for worker 2 to terminate
RING_IO_Join_client2 ==
  /\ ses.pc = "RING_IO_Join_client2"
  /\ w[2].pc = "done"
  /\ ses' = [ses EXCEPT !.pc = "RingIO_delete1"]
  /\ UNCHANGED <<workerVars, chanVars, cli, vfy>>

\* RING_IO_Delete: RingIO_delete of the ring of pair p is repeated, with a
\* sleep, until it succeeds; it succeeds on a ring that exists
RingIO_delete(p, name, next) ==
  /\ ses.pc = name
  /\ ses.ring[p] = "created"
  /\ ses' = [ses EXCEPT !.pc = next, !.status = TRUE,
                        !.ring[p] = "deleted", !.dels[p] = @ + 1,
                        !.ran = Append(@, name)]
  /\ UNCHANGED <<workerVars, chanVars, cli, vfy>>

RingIO_delete1 == RingIO_delete(1, "RingIO_delete1", "RingIO_delete2")

RingIO_delete2 == RingIO_delete(2, "RingIO_delete2", "PROC_stop")

\* the calls of RING_IO_Delete after the deletes
TeardownSteps ==
  <<"PROC_stop", "POOL_close", "PROC_detach", "PROC_destroy", "RING_IO_OS_exit">>

\* outcomes of a call of RING_IO_Delete after the deletes
TeardownOks == IF ses.tf > 0 THEN BOOLEAN ELSE {TRUE}

\* a call of RING_IO_Delete after the deletes: always made; its failure is
\* kept and printed only if the status so far is a success
TeardownCall(name, next) ==
  /\ ses.pc = name
  /\ \E ok \in TeardownOks :
       ses' = [ses EXCEPT
                 !.pc = next,
                 !.status = IF ses.status /\ ~ok THEN FALSE ELSE @,
                 !.logged = IF ses.status /\ ~ok THEN @ \cup {name} ELSE @,
                 !.failed = IF ok THEN @ ELSE @ \cup {name},
                 !.ran = Append(@, name),
                 !.tf = IF ok THEN @ ELSE @ - 1]
  /\ UNCHANGED <<workerVars, chanVars, cli, vfy>>

PROC_stop == TeardownCall("PROC_stop", "POOL_close")

POOL_close == TeardownCall("POOL_close", "PROC_detach")

PROC_detach == TeardownCall("PROC_detach", "PROC_destroy")

PROC_destroy == TeardownCall("PROC_destroy", "RING_IO_OS_exit")

RING_IO_OS_exit == TeardownCall("RING_IO_OS_exit", "done")

RING_IO_Create ==
  \/ RING_IO_OS_init \/ PROC_setup \/ PROC_attach \/ POOL_open \/ PROC_load
  \/ RingIO_create1 \/ RingIO_create2 \/ PROC_start

RING_IO_Delete ==
  \/ RingIO_delete1 \/ RingIO_delete2
  \/ PROC_stop \/ POOL_close \/ PROC_detach \/ PROC_destroy \/ RING_IO_OS_exit

RING_IO_Main ==
  \/ MainEnter
  \/ RING_IO_Create
  \/ RING_IO_Create_client1 \/ RING_IO_Create_client2
  \/ RING_IO_Join_client1 \/ RING_IO_Join_client2
  \/ RING_IO_Delete

(***************************************************************************)
(* main: the command line.  cli.argc is argc, cli.arg the characters of    *)
(* argv[2] (empty when there is none), cli.processorId the Uint8 variable  *)
(* of main, cli.usage whether the usage text was printed, cli.started      *)
(* whether RING_IO_Main was called, cli.ret the value main returned (-1    *)
(* until it returns).                                                      *)
(***************************************************************************)
\* arguments on the command line, the program name included
MaxArgc == 4

\* characters of argv[2]
MaxArgLen == 3

\* processors of the configuration
MAX_PROCESSORS == 2

ArgChars == {"0", "1", "2", "5", "6", "-", "x"}

ArgStrings ==
  UNION {[1..n -> ArgChars] : n \in 0..MaxArgLen}

DigitChars == <<"0", "1", "2", "3", "4", "5", "6", "7", "8", "9">>

IsDigit(c) == \E i \in 1..Len(DigitChars) : DigitChars[i] = c

DigitVal(c) == (CHOOSE i \in 1..Len(DigitChars) : DigitChars[i] = c) - 1

\* the value of the digits str starts with, after acc
RECURSIVE AtoiDigits(_, _)
AtoiDigits(str, acc) ==
  IF str = <<>> \/ ~IsDigit(Head(str)) THEN acc
  ELSE AtoiDigits(Tail(str), acc * 10 + DigitVal(Head(str)))

\* atoi: an optional sign, then the digits up to the first other character;
\* 0 when there is none
atoi(str) ==
  IF str # <<>> /\ Head(str) = "-" THEN 0 - AtoiDigits(Tail(str), 0)
  ELSE AtoiDigits(str, 0)

\* conversion of an int to Uint8
Uint8(n) == n % 256

CliIdle ==
  [pc |-> "none", argc |-> 0, arg |-> <<>>, processorId |-> 0, usage |-> FALSE,
   started |-> FALSE, ret |-> -1]

CliInit(argc, arg) == [CliIdle EXCEPT !.pc = "main", !.argc = argc, !.arg = arg]

\* if ((argc != 3) && (argc != 2)): print the usage text
MainUsage ==
  /\ cli.pc = "main"
  /\ cli.argc # 3 /\ cli.argc # 2
  /\ cli' = [cli EXCEPT !.usage = TRUE, !.pc = "return"]
  /\ UNCHANGED <<workerVars, chanVars, ses, vfy>>

\* else: processorId is 0 for argc 2 and atoi (argv [2]) for argc 3
MainArgs ==
  /\ cli.pc = "main"
  /\ cli.argc = 3 \/ cli.argc = 2
  /\ cli' = [cli EXCEPT
               !.processorId = IF cli.argc = 2 THEN 0 ELSE Uint8(atoi(cli.arg)),
               !.pc = "check"]
  /\ UNCHANGED <<workerVars, chanVars, ses, vfy>>

\* if (processorId < MAX_PROCESSORS) RING_IO_Main (...)
MainStart ==
  /\ cli.pc = "check"
  /\ cli' = [cli EXCEPT !.started = cli.processorId < MAX_PROCESSORS,
                        !.pc = "return"]
  /\ UNCHANGED <<workerVars, chanVars, ses, vfy>>

\* return (0)
MainReturn ==
  /\ cli.pc = "return"
  /\ cli' = [cli EXCEPT !.ret = 0, !.pc = "exited"]
  /\ UNCHANGED <<workerVars, chanVars, ses, vfy>>

\* env: the workers the scheduler runs, the pairs whose sizes are all tried,
\* the pairs whose frame length is 0, what is odd about the peer's variable
\* attributes,
\* the frames each worker may start and the transient failures left.  A
\* worker runs its frames while the other is not scheduled yet, without
\* failures or with them; or both run, and worker 1 only ends the session.
Envs ==
  {[run |-> {1}, fine |-> {1}, budget |-> <<MaxFrames, 0>>, faults |-> 0, rel |-> 0, zero |-> {}, odd |-> {}],
   [run |-> {1}, fine |-> {1}, budget |-> <<1, 0>>, faults |-> MaxFaults, rel |-> 0, zero |-> {}, odd |-> {}],
   [run |-> {2}, fine |-> {2}, budget |-> <<0, MaxFrames>>, faults |-> 0, rel |-> 0, zero |-> {}, odd |-> {}],
   [run |-> Pairs, fine |-> {2}, budget |-> <<0, 1>>, faults |-> MaxFaults, rel |-> 0, zero |-> {}, odd |-> {}]}

Init ==
  /\ ChanInit
  /\ WorkerInit
  /\ env \in Envs
  /\ ses = SesRunning
  /\ cli = CliIdle
  /\ vfy = NoBuffer

Spec == Init /\ [][Next]_vars

\* the same workers when RingIO_release may fail: a worker runs one frame
\* alone, or both run and worker 1 only ends the session
EnvsRel ==
  {[run |-> {1}, fine |-> {1}, budget |-> <<1, 0>>, faults |-> 0,
    rel |-> MaxRelFaults, zero |-> {}, odd |-> {}],
   [run |-> Pairs, fine |-> {2}, budget |-> <<0, 1>>, faults |-> 0,
    rel |-> MaxRelFaults, zero |-> {}, odd |-> {}]}

InitRel ==
  /\ ChanInit
  /\ WorkerInit
  /\ env \in EnvsRel
  /\ ses = SesRunning
  /\ cli = CliIdle
  /\ vfy = NoBuffer

SpecRel == InitRel /\ [][Next]_vars

\* the environments of Envs, and one in which both workers run and the
\* frame length of pair 2 is 0
EnvsZero ==
  Envs \cup {[run |-> Pairs, fine |-> {2}, budget |-> <<0, 1>>, faults |-> 0,
               rel |-> 0, zero |-> {2}, odd |-> {}]}

InitZero ==
  /\ ChanInit
  /\ WorkerInit
  /\ env \in EnvsZero
  /\ ses = SesRunning
  /\ cli = CliIdle
  /\ vfy = NoBuffer

SpecZero == InitZero /\ [][Next]_vars

\* the environments of Envs, and two in which worker 1 runs one frame and
\* the peer's variable attributes are longer than one word, or declare 0
EnvsOdd ==
  Envs \cup {[run |-> {1}, fine |-> {1}, budget |-> <<1, 0>>, faults |-> 0,
               rel |-> 0, zero |-> {}, odd |-> {o}] : o \in {"big", "zero"}}

InitOdd ==
  /\ ChanInit
  /\ WorkerInit
  /\ env \in EnvsOdd
  /\ ses = SesRunning
  /\ cli = CliIdle
  /\ vfy = NoBuffer

SpecOdd == InitOdd /\ [][Next]_vars

\* the reader has been granted any buffer of Buffers
InitVerify ==
  /\ ChanInit
  /\ WorkerInit
  /\ env = [run |-> {}, fine |-> {}, budget |-> <<0, 0>>, faults |-> 0, rel |-> 0, zero |-> {}, odd |-> {}]
  /\ ses = SesRunning
  /\ cli = CliIdle
  /\ vfy \in {[pc |-> "granted", buf |-> b, status |-> "DSP_SOK"] : b \in Buffers}

NextVerify == VerifyGranted \/ ReleaseVerified

SpecVerify == InitVerify /\ [][NextVerify]_vars

\* the generic channel alone: no worker is scheduled
InitChan ==
  /\ ChanInit
  /\ WorkerInit
  /\ env = [run |-> {}, fine |-> {}, budget |-> <<0, 0>>, faults |-> 0, rel |-> 0, zero |-> {}, odd |-> {}]
  /\ ses = SesRunning
  /\ cli = CliIdle
  /\ vfy = NoBuffer

SpecChan == InitChan /\ [][ChanNext]_vars

\* the whole session: no worker runs until the controller starts it; worker 1
\* only ends the session; worker 2 runs one frame with every size tried, or
\* its frames with the largest size only
EnvsMain ==
  {[run |-> {}, fine |-> {2}, budget |-> <<0, 1>>, faults |-> 0, rel |-> 0, zero |-> {}, odd |-> {}],
   [run |-> {}, fine |-> {}, budget |-> <<0, MaxFrames>>, faults |-> 0, rel |-> 0, zero |-> {}, odd |-> {}]}

InitMain ==
  /\ ChanInit
  /\ WorkerInit
  /\ env \in EnvsMain
  /\ ses \in {SesInit(exe) : exe \in {"null", "image"}}
  /\ cli = CliIdle
  /\ vfy = NoBuffer

NextMain ==
  \/ RING_IO_Main
  \/ \E p \in env.run : OpenWriterFail(p)
  \/ Next

SpecMain == InitMain /\ [][NextMain]_vars

\* main on every command line of up to MaxArgc arguments; argv[2], when
\* there is one, is any string of ArgStrings
InitArgs ==
  /\ ChanInit
  /\ WorkerInit
  /\ env = [run |-> {}, fine |-> {}, budget |-> <<0, 0>>, faults |-> 0, rel |-> 0, zero |-> {}, odd |-> {}]
  /\ ses = SesInit("image")
  /\ cli \in {CliInit(argc, <<>>) : argc \in 1..2}
             \cup {CliInit(argc, arg) : argc \in 3..MaxArgc, arg \in ArgStrings}
  /\ vfy = NoBuffer

NextArgs == MainUsage \/ MainArgs \/ MainStart \/ MainReturn

SpecArgs == InitArgs /\ [][NextArgs]_vars

\* C14: a ring the host created is destroyed once by the session controller,
\* and never while the worker that opened a handle on it still holds it,
\* on every path of RING_IO_Main.
C14_DeleteAfterClose ==
  \A p \in Pairs :
    ses.ring[p] = "deleted" => ses.dels[p] = 1 /\ w[p].wH # "open"

(***************************************************************************)
(* C1.  Conservation.  As claimed: at every point between two calls the    *)
(* valid bytes and the free bytes of a channel add up to its capacity.     *)
(***************************************************************************)
C1_Original == ring.valid + ring.empty = ring.cap

(* C1 as amended: the valid bytes, the free bytes and the bytes the        *)
(* producer and the consumer hold acquired add up to the capacity after    *)
(* every sequence of calls; valid + free = capacity whenever neither       *)
(* client holds a grant.                                                   *)
C1_Conservation ==
  /\ ring.valid + ring.empty + ring.wAcq + ring.rAcq = ring.cap
  /\ ring.valid >= 0 /\ ring.empty >= 0 /\ ring.wAcq >= 0 /\ ring.rAcq >= 0
  /\ (ring.wAcq = 0 /\ ring.rAcq = 0 => ring.valid + ring.empty = ring.cap)

\* both clients hold a grant
C1_Witness ==
  /\ ring.wAcq > 0 /\ ring.rAcq > 0
  /\ ring.valid + ring.empty < ring.cap

(***************************************************************************)
(* C2.  Ordering.  The consumer takes the items of the stream in the order *)
(* they were written: the stamps it takes never decrease, nothing written  *)
(* before the last item it took is still in the channel, and the stream    *)
(* itself is in write order, so an attribute is taken before the data      *)
(* written after it and the attributes are taken first in, first out.      *)
(***************************************************************************)
C2_Ordering ==
  /\ hist.prev <= hist.cseq
  /\ \A i \in 1..Len(ring.items) : ring.items[i].s >= hist.cseq
  /\ \A i, j \in 1..Len(ring.items) : i < j => ring.items[i].s < ring.items[j].s

\* data, then an attribute, then data were written, and the consumer has
\* taken the first data and the attribute and now faces the second data
C2_Witness ==
  /\ hist.wseq = 3 /\ hist.cseq = 2 /\ hist.prev = 1
  /\ Len(ring.items) = 1 /\ ring.items[1].k = "d" /\ ring.items[1].s = 3

(***************************************************************************)
(* C4.  ONE_SHOT watermark.  As claimed: a request fires on a transition   *)
(* that takes the monitored quantity from below the watermark to at least  *)
(* the watermark.                                                          *)
(***************************************************************************)
Monitored(side) == IF side = "w" THEN ring.empty ELSE ring.valid

Watermark(side) == IF side = "w" THEN ring.wN.wm ELSE ring.rN.wm

C4_Original ==
  hist.lastFire # "none" =>
    /\ hist.qBefore < Watermark(hist.lastFire)
    /\ Monitored(hist.lastFire) >= Watermark(hist.lastFire)

(* C4 as amended: an armed ONE_SHOT request fires on the first release by  *)
(* the other client that takes the monitored quantity from below the       *)
(* watermark to at least the watermark or, with watermark 0 (a quantity is *)
(* never below 0), on the first release at all; it fires once and not      *)
(* again until it is armed again.  hist.due tells, from the sizes before   *)
(* and after the last call, which request had to fire in it.               *)
C4_OneShot ==
  /\ hist.wSince <= 1 /\ hist.rSince <= 1
  /\ hist.due = hist.lastFire
  /\ hist.lastFire # "none" => Monitored(hist.lastFire) >= Watermark(hist.lastFire)
  /\ hist.lastFire = "w" => ~ring.wN.armed
  /\ hist.lastFire = "r" => ~ring.rN.armed

\* the consumer's request, armed at a watermark above 0, has just fired
C4_Witness ==
  /\ hist.lastFire = "r" /\ ring.rN.wm > 0 /\ hist.rSince = 1
  /\ hist.qBefore < ring.rN.wm

C5_Wakeup == \A p \in Pairs : ~obs[p].missed

C8_Delivered == \A p \in Pairs : obs[p].mis = "none"

(***************************************************************************)
(* C9.  No cross-talk.  A frame event of pair p (the attributes and        *)
(* notifications of its worker and of its peer, the callbacks they run and *)
(* the posts of these callbacks) changes none of the flags, semaphores,    *)
(* rings and callbacks on their way of the other pair.                     *)
(***************************************************************************)
Channels(p) ==
  <<chW[p], chR[p], sem[p], fReaderStart[p], fReaderEnd[p], peer[p].cb>>

EventStep(p) ==
  \/ SetStart(p) \/ NotifyStart(p) \/ SetEnd(p) \/ NotifyEnd(p)
  \/ PeerStep(p)

Owned(p) ==
  <<w[p], chW[p], chR[p], sem[p], fReaderStart[p], fReaderEnd[p]>>

\* what worker p reads: what it owns, and worker 2 reads Task_Run
ReadBy(p) == IF p = 2 THEN <<Owned(p), Task_Run>> ELSE <<Owned(p)>>

C10_Original ==
  [][\A p \in Pairs : WorkerStep(p) => UNCHANGED ReadBy(Other(p))]_vars

(* C10 as amended: Task_Run is the one variable the workers share, written *)
(* by worker 1 (when it reads '.') and read by worker 2; apart from it a   *)
(* step of a worker changes nothing the other worker owns, and Task_Run is *)
(* changed by no step but that one.                                        *)
C10_SharedOnlyTaskRun ==
  [][/\ \A p \in Pairs : WorkerStep(p) => UNCHANGED Owned(Other(p))
     /\ Task_Run' # Task_Run => Top1 /\ Task_Run /\ ~Task_Run']_vars

\* worker 2 has left its loop because worker 1 cleared Task_Run
C10_Witness ==
  /\ ~Task_Run /\ w[1].pc \in {"endNotify", "delSemW", "drain", "closeR", "done"}
  /\ w[2].pc = "endNotify" /\ w[2].frame = 1

(***************************************************************************)
(* C11.  Acquired bytes.  On every ring a worker writes or reads, the      *)
(* bytes held acquired (by the worker and by its peer) never exceed the    *)
(* capacity less the valid size, and what the worker believes it holds     *)
(* between its acquire and its release (acqSize) is what the ring has      *)
(* granted it.                                                             *)
(***************************************************************************)
Held(ch) == ch.wAcq + ch.rAcq

C11_AcquiredBound ==
  \A p \in Pairs :
    /\ Held(chW[p]) <= chW[p].cap - RingIO_getValidSize(chW[p])
    /\ Held(chR[p]) <= chR[p].cap - RingIO_getValidSize(chR[p])
    /\ chW[p].wAcq >= 0 /\ chR[p].rAcq >= 0
    /\ w[p].pc = "relW" => chW[p].wAcq = w[p].acqSize
    /\ w[p].pc = "relR" => chR[p].rAcq = w[p].acqSize

\* the worker holds a whole ring acquired while nothing in it is valid
C11_Witness ==
  \E p \in Pairs :
    /\ w[p].pc = "relW" /\ chW[p].wAcq = BytesToTransfer(p)
    /\ chW[p].valid = 0 /\ chW[p].empty = chW[p].cap - chW[p].wAcq

(***************************************************************************)
(* C12.  One grant at a time.  A worker calls RingIO_acquire on a handle   *)
(* only when it holds nothing acquired on that handle: the grant before    *)
(* was released or cancelled in full, also when RingIO_release reported a  *)
(* failure.                                                                *)
(***************************************************************************)
C12_OneGrant ==
  [][\A p \in Pairs :
       /\ AcquireW(p) => chW[p].wAcq = 0
       /\ AcquireR(p) => chR[p].rAcq = 0]_vars

(***************************************************************************)
(* C13.  Close after drain.  A worker closes the handle it writes with     *)
(* only when the ring holds no valid data and no attribute: the step that  *)
(* closes it starts from an empty ring, and a closed ring stays empty.     *)
(***************************************************************************)
Drained(ch) ==
  /\ RingIO_getValidSize(ch) = 0
  /\ RingIO_getValidAttrSize(ch) = 0
  /\ ch.items = <<>>

C13_CloseDrained ==
  \A p \in Pairs : w[p].wH = "closed" => Drained(chW[p])

\* a worker has closed the ring after a frame the peer has read to its end
C13_Witness ==
  \E p \in Pairs :
    /\ w[p].wH = "closed" /\ w[p].frame >= 1
    /\ obs[p].rep = BytesToTransfer(p)

\* C15: in RING_IO_Delete the failure of a step is logged whatever the
\* outcome of the steps before it.
C15_FailureLogged ==
  \A i \in 1..Len(TeardownSteps) :
    TeardownSteps[i] \in ses.failed => TeardownSteps[i] \in ses.logged

\* a call of RING_IO_Create from PROC_attach on has failed
CreateFailed ==
  \E i \in 3..Len(ses.steps) : ~ses.steps[i].ok

\* RING_IO_Delete is in the loop on a ring that was never created: no later
\* call of RING_IO_Delete is ever made
DeleteHangs ==
  \/ ses.pc = "RingIO_delete1" /\ ses.ring[1] = "none"
  \/ ses.pc = "RingIO_delete2" /\ ses.ring[2] = "none"

\* C16: after a failed call of RING_IO_Create (attach, pool open, load, ring
\* create, start) no worker is started, and RING_IO_Delete tears down what
\* was set up: it does not stop before the calls that undo it.
C16_FailedSetupTornDown ==
  CreateFailed => ses.spawned = {} /\ env.run = {} /\ ~DeleteHangs

\* the call named has been made by RING_IO_Create and has succeeded
SetupDone(name) ==
  \E i \in 1..Len(ses.steps) : ses.steps[i].s = name /\ ses.steps[i].ok

\* C17 as stated: the rings are created only after the image was loaded and
\* started.
C17_Original ==
  \A p \in Pairs : ses.ring[p] = "created" => SetupDone("PROC_start")

\* C17: RING_IO_Create makes its calls in the order of SetupSteps (runtime
\* init, setup and attach, pool open, load, both rings, start); each call
\* from PROC_attach on is made only after the call before it succeeded; the
\* workers are started only after every call from PROC_setup on succeeded.
C17_SetupOrder ==
  /\ Len(ses.steps) <= Len(SetupSteps)
  /\ \A i \in 1..Len(ses.steps) : ses.steps[i].s = SetupSteps[i]
  /\ \A i \in 3..Len(ses.steps) : ses.steps[i - 1].ok
  /\ ses.spawned # {} =>
       /\ Len(ses.steps) = Len(SetupSteps)
       /\ \A i \in 2..Len(SetupSteps) : ses.steps[i].ok

\* both workers are started, after a RING_IO_Create in which RING_IO_OS_init
\* failed
C17_Witness ==
  /\ ses.spawned = Pairs
  /\ Len(ses.steps) = Len(SetupSteps)
  /\ ~ses.steps[1].ok

\* the worker has left its while (1) loop
AfterLoop == {"endNotify", "delSemW", "drain", "closeR", "done"}

\* C18: worker 2 reads Task_Run only at the top of its loop, between frames:
\* it leaves the loop only from there and only with Task_Run FALSE, a frame
\* it has begun comes back to the top only through the end of the paired
\* read, and with Task_Run FALSE at the top it leaves and starts no further
\* frame.
C18_FlagBetweenFrames ==
  [][/\ (w'[2].pc \in AfterLoop /\ w[2].pc \notin AfterLoop)
          => (w[2].pc = "top" /\ Task_Run = FALSE)
     /\ (w'[2].pc = "top" /\ w[2].pc \notin {"top", "openR"})
          => w[2].pc = "reset"
     /\ (w[2].pc = "top" /\ Task_Run = FALSE /\ w'[2] # w[2])
          => w'[2].pc = "endNotify"
     /\ w[2].pc \in AfterLoop
          => (w'[2].pc \in AfterLoop /\ w'[2].frame = w[2].frame)]_vars

\* worker 2 is in the paired read of a frame with Task_Run cleared
C18_Witness ==
  Task_Run = FALSE /\ w[2].pc = "relR" /\ w[2].frame = 1

\* the attribute at the head of the stream is a variable attribute whose
\* payload does not fit a buffer of bufSize bytes
TooSmall(ch, bufSize) ==
  Len(ch.items) > 0 /\ ch.items[1].k = "v" /\ ch.items[1].sz > bufSize

GivenId == IF cli.argc = 2 THEN 0 ELSE atoi(cli.arg)

\* C20: main calls RING_IO_Main only with 1 or 2 arguments and a processor
\* id (0 when omitted) below MAX_PROCESSORS; with another number of arguments
\* it only prints the usage text; every id at or over MAX_PROCESSORS is
\* rejected; main returns 0 in all cases.
C20_MainStarts ==
  /\ cli.started => cli.argc \in {2, 3} /\ GivenId < MAX_PROCESSORS
  /\ cli.usage => cli.argc \notin {2, 3} /\ ~cli.started
  /\ cli.pc = "exited" =>
       /\ cli.ret = 0
       /\ cli.argc \notin {2, 3} => cli.usage /\ ~cli.started
       /\ (cli.argc \in {2, 3} /\ GivenId >= MAX_PROCESSORS) => ~cli.started

\* C21: a worker leaves the setting of the RINGIO_DATA_START attribute only
\* with the attribute set, and the sending of NOTIFY_DATA_START only with
\* the notification sent: a transient failure is retried and the frame goes
\* on to its STREAM loop.
C21_StartRetried ==
  [][\A p \in Pairs :
       /\ (w[p].pc = "setStart" /\ w'[p].pc # "setStart")
            => (w'[p].pc = "notifyStart" /\ w'[p].frame = w[p].frame + 1)
       /\ (w[p].pc = "notifyStart" /\ w'[p].pc # "notifyStart")
            => (w'[p].status = "RINGIO_SUCCESS"
                /\ w'[p].pc = NextStream(p, w[p].bytesTransfered))]_vars

\* positions of a worker outside a frame
OutOfFrame == {"open", "openR", "top"} \cup AfterLoop

\* C22: a worker whose RingIO_open of the ring it writes failed makes no
\* call of the library with the NULL handle and starts no frame.
C22_NoUseUnopened ==
  \A p \in Pairs :
    /\ ~obs[p].nullCall
    /\ w[p].wH = "null" => w[p].pc \in OutOfFrame

\* what is left of the frame of worker p
Remaining(p) == BytesToTransfer(p) - w[p].bytesTransfered

\* the item written last on a ring
LastItem(ch) == ch.items[Len(ch.items)]

InStream == {"setv", "acqW", "relW", "cancelW", "waitW"}

\* positions whose step goes back to the condition of the STREAM loop
ToCondition == {"notifyStart", "relW", "cancelW", "waitW"}

EndsOf(ch, f) ==
  {i \in 1..Len(ch.items) :
     /\ ch.items[i].k = "f"
     /\ ch.items[i].t = RINGIO_DATA_END
     /\ ch.items[i].s = f}

\* the RINGIO_DATA_END attributes in a ring
Ends(ch) == UNION {EndsOf(ch, f) : f \in 0..MaxFrames}

\* C26: the worker leaves the setting of RINGIO_DATA_END only with the
\* attribute accepted and in the ring, and goes on to send NOTIFY_DATA_END;
\* a rejected call puts nothing in the ring and is made again; the
\* notification is sent only from there; and no other step puts a
\* RINGIO_DATA_END attribute in the ring, so that a frame has exactly one.
C26_OneFrameEnd ==
  [][\A p \in Pairs :
       /\ (w[p].pc = "setEnd" /\ w'[p].pc # "setEnd")
            => /\ w'[p].pc = "notifyEnd"
               /\ w'[p].status = "RINGIO_SUCCESS"
               /\ EndsOf(chW[p], w[p].frame) = {}
               /\ EndsOf(chW'[p], w[p].frame) = {Len(chW'[p].items)}
       /\ ~(w[p].pc = "setEnd" /\ w'[p].pc # "setEnd")
            => Cardinality(Ends(chW'[p])) <= Cardinality(Ends(chW[p]))
       /\ w'[p].pc = "notifyEnd" => w[p].pc \in {"setEnd", "notifyEnd"}
       /\ w[p].pc = "notifyEnd"
            => Cardinality(EndsOf(chW[p], w[p].frame)) <= 1]_vars

\* the RINGIO_DATA_END of the second frame is the last item in the ring and
\* the worker is about to send the notification
C26_Witness ==
  \E p \in Pairs :
    /\ w[p].pc = "notifyEnd"
    /\ w[p].frame = 2
    /\ Cardinality(EndsOf(chW[p], 2)) = 1
    /\ LastItem(chW[p]).t = RINGIO_DATA_END

\* positions of a worker behind its shutdown message
AfterBye == AfterLoop \ {"endNotify"}

\* the RINGIO_DSP_END attributes in a ring
DspEnds(ch) ==
  {i \in 1..Len(ch.items) :
     ch.items[i].k = "f" /\ ch.items[i].t = RINGIO_DSP_END}

\* C27 as stated: the worker goes on to its close only with a RINGIO_DSP_END
\* fixed attribute put in the ring it writes.
C27_Original ==
  [][\A p \in Pairs :
       (w[p].pc = "endNotify" /\ w'[p].pc # "endNotify")
         => DspEnds(chW'[p]) # {}]_vars

\* C27: after the loop of frames the worker sends the notification
\* NOTIFY_DSP_END on the ring it writes, again after every failure, and goes
\* on to its close only with the notification delivered; it puts no
\* attribute in the ring for it.
C27_ByeNotified ==
  [][\A p \in Pairs :
       /\ (w[p].pc = "endNotify" /\ w'[p].pc # "endNotify")
            => /\ w'[p].pc = "delSemW"
               /\ w'[p].status = "RINGIO_SUCCESS"
               /\ obs'[p].bye = NOTIFY_DSP_END
               /\ chW'[p] = chW[p]
       /\ w'[p].pc \in AfterBye
            => (obs'[p].bye = NOTIFY_DSP_END /\ w[p].pc \in AfterLoop)
       /\ DspEnds(chW'[p]) = {}]_vars

\* worker 1, which started no frame, is closing with the notification
\* delivered after a first NOTIFY_DSP_END that failed (worker 2 has not run)
C27_Witness ==
  /\ env.run = Pairs
  /\ w[2].pc = "open"
  /\ w[1].pc = "drain"
  /\ obs[1].bye = NOTIFY_DSP_END
  /\ env.faults < MaxFaults

\* C28: the watermark of the ONE_SHOT request a worker has registered on the
\* ring it writes is the frame length of its pair.
C28_WatermarkIsFrame ==
  \A p \in Pairs : chW[p].wN.set => chW[p].wN.wm = BytesToTransfer(p)

\* positions of a worker that waits for the start of the answer
WaitFrameStart == {"waitStart", "chkStart", "getStart"}

\* C29: the worker leaves the wait for the start of the answer for READ_LOOP
\* only by the step that reads the fixed attribute RINGIO_DATA_START off the
\* head of the ring it reads; an attribute of another type, or none, keeps
\* it reading.
C29_StartConsumed ==
  [][\A p \in Pairs :
       (w[p].pc \in WaitFrameStart /\ w'[p].pc = "acqR")
         => /\ w[p].pc = "getStart"
            /\ Len(chR[p].items) > 0
            /\ chR[p].items[1].k = "f"
            /\ chR[p].items[1].t = RINGIO_DATA_START
            /\ chR'[p].items = Tail(chR[p].items)]_vars

\* positions of a worker inside READ_LOOP
ReadLoop == {"acqR", "relR", "getAttrR", "getvAttrR", "waitR"}

\* the head of ring ch is the fixed attribute RINGIO_DATA_END
EndAtHead(ch) ==
  /\ Len(ch.items) > 0
  /\ ch.items[1].k = "f"
  /\ ch.items[1].t = RINGIO_DATA_END

\* C30: exitFlag is set, and READ_LOOP left, only by the step that reads the
\* fixed attribute RINGIO_DATA_END off the head of the ring the worker
\* reads; at that step the worker has acquired the whole answer of the peer
\* (the frame length) and holds none of it unreleased.
C30_ExitOnFrameEnd ==
  [][\A p \in Pairs :
       /\ ((w[p].pc \in ReadLoop /\ w'[p].pc \notin ReadLoop)
             \/ (w'[p].exitFlag /\ ~w[p].exitFlag))
            => /\ w[p].pc = "getAttrR"
               /\ EndAtHead(chR[p])
               /\ chR'[p].items = Tail(chR[p].items)
               /\ w'[p].exitFlag
               /\ w'[p].pc = "frameEnd"
       /\ (w[p].pc = "getAttrR" /\ w'[p].pc = "frameEnd")
            => /\ w'[p].totalRcvbytes = BytesToTransfer(p)
               /\ chR'[p].rAcq = 0]_vars

\* C31: the size a worker passes to RingIO_acquire in READ_LOOP is never 0.
C31_AcquireNonZero ==
  \A p \in Pairs : w[p].pc = "acqR" => w[p].acqSize # 0

\* a failed acquire zeroed acqSize while a chunk was expected: the size to
\* ask for is the default again, not what is left of the chunk
C31_Witness ==
  \E p \in Pairs :
    /\ w[p].pc = "acqR"
    /\ w[p].status = "RINGIO_SUCCESS"
    /\ w[p].acqSize = ReaderBufSize(p)
    /\ w[p].rcvSize > 0
    /\ w[p].rcvSize < ReaderBufSize(p)


\* C32: a failed read of a pending variable attribute is followed by the next
\* attribute: once RingIO_getvAttribute has been called in READ_LOOP, no
\* attribute too large for the worker's buffer is at the head of the ring it
\* reads.
C32_NextAttribute ==
  [][\A p \in Pairs :
       (w[p].pc = "getvAttrR" /\ w'[p].pc = "acqR")
         => ~TooSmall(chR'[p], VAttrBytes)]_vars

\* C35: rcvSize -= acqSize never goes below 0, and the size the next acquire
\* of READ_LOOP asks for is at most the default size of the ring.
C35_NoWrap ==
  \A p \in Pairs :
    /\ w[p].rcvSize >= 0
    /\ w[p].pc = "acqR" => Unsigned(w[p].acqSize) <= ReaderBufSize(p)


\* C33: having left READ_LOOP on RINGIO_DATA_END, a worker resets its state
\* of the frame only after the end notification of that frame has run its
\* callback; a wait ended by another post does not let it go on.
C33_EndAwaited ==
  [][\A p \in Pairs :
       (w[p].exitFlag /\ w[p].pc \in {"frameEnd", "waitEnd"} /\ w'[p].pc = "reset")
         => obs[p].nE >= w[p].frame]_vars


\* C34: RING_IO_Reader_VerifyData reports a failure if and only if a byte of
\* the granted buffer differs from the fill pattern.
C34_VerifyReports ==
  vfy.pc \in {"verified", "released"}
    => (vfy.status # "DSP_SOK" <=> Differs(vfy.buf))


\* the peer's release on the ring worker p writes fires the writer's
\* notifier, whose callback posts a semaphore the worker has deleted
PostsDeletedW(p) ==
  /\ sem[p].W.st = "deleted"
  /\ \E g \in ReaderGrants(chW[p], chW[p].cap) :
       LET r == RingIO_releaseR(RingIO_acquireR(chW[p], g, g).ch, g, TRUE)
       IN r.fire /\ chW'[p] = r.ch

\* the callback of the reader's notifier posts a semaphore the worker has
\* deleted
PostsDeletedR(p) ==
  /\ sem[p].R.st = "deleted"
  /\ peer[p].cb > 0
  /\ peer'[p].cb = peer[p].cb - 1

\* C36: no callback posts a semaphore after its worker has deleted it.
C36_NoPostAfterDelete ==
  [][\A p \in Pairs : ~PostsDeletedW(p) /\ ~PostsDeletedR(p)]_vars


C38_DeleteLoopsEnd ==
  /\ ses.pc = "RingIO_delete1" => ses.ring[1] = "created"
  /\ ses.pc = "RingIO_delete2" => ses.ring[2] = "created"


\* worker p is at a wait: on a semaphore, or for its ring to drain
Waiting(p) == w[p].pc \in {"waitW", "waitStart", "waitR", "waitEnd", "drain"}

\* some step of pair p can be taken: of its worker, of its peer, or the post
\* of a callback on its way
PairStep(p) ==
  WorkerStep(p) \/ PeerStep(p) \/ CallbackPost(p)

\* C39: after the stop signal no worker is blocked for good: while a worker
\* is at a wait, its peer or a callback still has a step to take, or the
\* wait can return.
C39_NoWorkerBlocked ==
  \A p \in Pairs : (~Task_Run /\ p \in env.run /\ Waiting(p)) => ENABLED PairStep(p)


\* the messages of the notifications that run the callback of worker p's
\* reader notifier in this step: the peer's start or end notification, or
\* the watermark notification of a release of the peer
RaisedMsgs(p) ==
  (IF peer[p].pcw = "nStart" /\ peer'[p].pcw # "nStart"
   THEN {NOTIFY_DATA_START} ELSE {})
  \cup (IF peer[p].pcw = "nEnd" /\ peer'[p].pcw # "nEnd"
        THEN {NOTIFY_DATA_END} ELSE {})
  \cup (IF /\ peer[p].pcw = "data" /\ chR'[p].valid > chR[p].valid
           /\ chR[p].rN.armed /\ ~chR'[p].rN.armed
        THEN {WatermarkMsg} ELSE {})

\* C40: worker 2 is woken by the notifications that wake worker 1: a
\* notification raised for worker 2 puts a post of its semaphore on its way
\* exactly if the callback of worker 1 posts for the same message.
C40_SameWakeups ==
  [][\A m \in RaisedMsgs(2) :
       peer'[2].cb - peer[2].cb =
         IF RING_IO_Reader_Notify1(m, [fs |-> fReaderStart, fe |-> fReaderEnd]).post
         THEN 1 ELSE 0]_vars

====
